---- MODULE Spec2Model ----
(***************************************************************************)
(* Model of the instance discovery engine of the Astra manager web UI:     *)
(* InstanceManager (scan cycles, probe cache, state store, change          *)
(* notifier, debounced save), the SSE subscribers of ApiRouter and the     *)
(* parts of AppConfig / ConfigManager they use.                            *)
(*                                                                         *)
(* The program runs on one asyncio event loop: a step of the model is the  *)
(* code a coroutine runs between two points where it really suspends       *)
(* (network I/O, sleep, waiting for a task or an event, a generator        *)
(* yield). instances_lock and _instance_alive_cache_lock are never held    *)
(* across such a point, so acquiring them never suspends.                  *)
(***************************************************************************)
EXTENDS Integers, Sequences, FiniteSets, TLC

(* ----------------------------- bounds ---------------------------------- *)
MaxPort == 2
MaxServers == 2
MaxTasks == 2
MaxSubs == 2
MaxObjs == 3
MaxCallers == 1

(* ------------------- configuration values (AppConfig) ------------------ *)
instance_host == "h"
check_interval == 1
cache_ttl == 1
instance_alive_cache_ttl == 1
debounce_save_delay == 2
update_task_wait == 2
\* the timeout of a subscriber's wait for update_event
sse_wait_timeout == 1

Ports == 1..MaxPort
TaskIds == 1..MaxTasks
Cycles == {"loop", "manual"}
Subs == 1..MaxSubs

VARIABLES
    config,      \* ConfigManager.config: the AppConfig object
    file,        \* the instances snapshot in the persisted configuration file
    instances,   \* InstanceManager.instances: the State Store
    alive_cache, \* InstanceManager._instance_alive_cache
    tasks,       \* the debounced save tasks that exist
    save_task,   \* InstanceManager._save_task (0: None)
    cyc,         \* the executions of perform_update (scan loop, manual)
    subs,        \* the SSE generators of ApiRouter.get_instances
    phase,       \* lifecycle: "init" before startup, then "running"
    fleet,       \* environment: the health answers the scanned hosts can give
    fired,       \* history: the step just taken set and cleared update_event
    burst,       \* history: detected changes in a row less than the debounce
                 \* delay apart, and the disk writes since the last change
    last_results, \* history: the probe results of the last completed cycle
    scen,        \* history: how far the first cycles follow Scenario C
    shut,        \* LifecycleManager.shutdown: its position and bounded wait
    heap,        \* the record objects (dicts) that lists of instances refer to
    refs,        \* the lists of references: store, old map, snapshots
    access,      \* history: the accesses to self.instances of the last step
    proxy,       \* the request ProxyRouter.proxy_request is serving
    disk,        \* the configuration file as ConfigManager._load_config finds it
    resolved,    \* the targets last resolved from the loaded configuration
    health,      \* one health answer and the record the engine makes of it
    update_event, \* InstanceManager.update_event: the flag of the asyncio.Event
    sse_tasks,   \* AppCore._sse_tasks: the tracked subscriber tasks
    io           \* environment: whether the configuration file can be written

prog == <<config, file, instances, alive_cache, tasks, save_task, cyc, subs, phase, fleet>>
hist == <<fired, burst, last_results, scen>>
ext == <<shut, heap, refs, access>>
track == <<update_event, sse_tasks, io>>
aux == <<proxy, disk, resolved, health, track>>
vars == <<prog, hist, ext, aux>>

(* Time. Every time stamp is held as its age, time.time() - stamp, and every   *)
(* sleep as the time left; Tick lets one unit of time pass. Ages stop growing  *)
(* at AgeCap, which no comparison of the code can tell from a larger age.      *)
AgeCap == IF cache_ttl > debounce_save_delay THEN cache_ttl ELSE debounce_save_delay
Older(age) == IF age < AgeCap THEN age + 1 ELSE age
Less(left) == IF left > 0 THEN left - 1 ELSE left

(* ------------------------------ data ----------------------------------- *)
\* f'{host}:{port}'
AddrOf(host, port) == <<host, port>>

Inst(addr, version, status) == [addr |-> addr, version |-> version, status |-> status]

\* key order of the address strings (one host, one-digit ports)
AddrLeq(a, b) == a[2] <= b[2]

\* health answers: "None" is no answer, "{}" a JSON body without version
Versions == {"2.0", "2.1"}
ProbeResults == {"None", "{}"} \cup Versions

\* instance_data.get('version', 'unknown')
VersionOf(result) == IF result = "{}" THEN "unknown" ELSE result

\* dicts keyed by address, in insertion order
HasKey(d, a) == \E i \in 1..Len(d) : d[i].addr = a
Get(d, a) == d[CHOOSE i \in 1..Len(d) : d[i].addr = a]
\* temp_instances kept as a list: every target appends its record
ListAppend(d, rec) == Append(d, rec)

DictSet(d, rec) ==
    IF HasKey(d, rec.addr)
    THEN [i \in 1..Len(d) |-> IF d[i].addr = rec.addr THEN rec ELSE d[i]]
    ELSE Append(d, rec)

RECURSIVE DictOf(_)
\* {inst['addr']: inst for inst in self.instances}
DictOf(list) ==
    IF list = <<>> THEN <<>>
    ELSE DictSet(DictOf(SubSeq(list, 1, Len(list) - 1)), list[Len(list)])

RECURSIVE SortByAddr(_)
\* list.sort(key=lambda x: x['addr'])
SortByAddr(list) ==
    IF list = <<>> THEN <<>>
    ELSE LET rest == SortByAddr(SubSeq(list, 1, Len(list) - 1))
             x == list[Len(list)]
             k == Cardinality({i \in 1..Len(rest) : AddrLeq(rest[i].addr, x.addr)})
         IN  SubSeq(rest, 1, k) \o <<x>> \o SubSeq(rest, k + 1, Len(rest))

(* --------------------------- target resolver --------------------------- *)
\* a sweep that stops one port short: range(start_port, end_port)
ScanExclusive(cfg) ==
    IF cfg.servers # <<>>
    THEN [i \in 1..Len(cfg.servers) |->
            <<cfg.servers[i].address, cfg.servers[i].port, "list">>]
    ELSE [i \in 1..(cfg.end_port - cfg.start_port) |->
            <<cfg.instance_host, cfg.start_port + i - 1, "autoscan">>]

_get_target_addresses(cfg) ==
    IF cfg.servers # <<>>
    THEN [i \in 1..Len(cfg.servers) |->
            <<cfg.servers[i].address, cfg.servers[i].port, "list">>]
    ELSE [i \in 1..(cfg.end_port - cfg.start_port + 1) |->
            <<cfg.instance_host, cfg.start_port + i - 1, "autoscan">>]

(* ----------------------------- reconcile ------------------------------- *)
\* the autoscan policy of an earlier revision: a failed target is always recorded
AlwaysMaterialize(addr, srv_type, result, old_instances) ==
    IF result = "None"
    THEN <<[version |-> IF HasKey(old_instances, addr)
                        THEN Get(old_instances, addr).version ELSE "unknown",
            status |-> "Offline"]>>
    ELSE <<[version |-> VersionOf(result), status |-> "Online"]>>

\* only what was seen before is kept: the explicit origin is not looked at
KnownOnly(addr, srv_type, result, old_instances) ==
    IF result = "None"
    THEN IF HasKey(old_instances, addr)
         THEN <<[version |-> Get(old_instances, addr).version, status |-> "Offline"]>>
         ELSE <<>>
    ELSE <<[version |-> VersionOf(result), status |-> "Online"]>>

\* only explicitly configured servers are kept while they do not answer
ExplicitOnly(addr, srv_type, result, old_instances) ==
    IF result = "None"
    THEN IF srv_type # "autoscan"
         THEN <<[version |-> IF HasKey(old_instances, addr)
                             THEN Get(old_instances, addr).version ELSE "unknown",
                 status |-> "Offline"]>>
         ELSE <<>>
    ELSE <<[version |-> VersionOf(result), status |-> "Online"]>>

\* the version is not carried over to the Offline record
ForgetVersion(addr, srv_type, result, old_instances) ==
    IF result = "None"
    THEN IF HasKey(old_instances, addr) \/ srv_type # "autoscan"
         THEN <<[version |-> "unknown", status |-> "Offline"]>>
         ELSE <<>>
    ELSE <<[version |-> VersionOf(result), status |-> "Online"]>>

\* the dict returned for one target: <<>> is the empty dict
_get_updated_instance_data(addr, srv_type, result, old_instances) ==
    IF result = "None"
    THEN IF HasKey(old_instances, addr) \/ srv_type # "autoscan"
         THEN <<[version |-> IF HasKey(old_instances, addr)
                             THEN Get(old_instances, addr).version
                             ELSE "unknown",
                 status |-> "Offline"]>>
         ELSE <<>>
    ELSE <<[version |-> VersionOf(result), status |-> "Online"]>>

RECURSIVE Reconcile(_, _, _, _)
\* the loop over zip(target_addresses, results) that fills temp_instances
Reconcile(targets, results, old_instances, n) ==
    IF n = 0 THEN <<>>
    ELSE LET temp == Reconcile(targets, results, old_instances, n - 1)
             addr == AddrOf(targets[n][1], targets[n][2])
             data == _get_updated_instance_data(addr, targets[n][3], results[n],
                                                old_instances)
         IN  IF data # <<>>
             THEN DictSet(temp, Inst(addr, data[1].version, data[1].status))
             ELSE temp

\* the lists are compared as they are, without sorting
CompareUnsorted(old_instances, temp_instances) == temp_instances # old_instances

\* only the set of addresses is compared
CompareAddrs(old_instances, temp_instances) ==
    {temp_instances[i].addr : i \in 1..Len(temp_instances)}
        # {old_instances[i].addr : i \in 1..Len(old_instances)}

\* new_instances_list != old_instances_list, both sorted by address
HasChanged(old_instances, temp_instances) ==
    SortByAddr(temp_instances) # SortByAddr(old_instances)

(* ----------------------------- save tasks ------------------------------ *)
FreeTask == [state |-> "free", left |-> 0, cancel |-> FALSE]

\* a predecessor is never found pending, so it is never cancelled
NeverPending(ts, handle) == FALSE

\* self._save_task and not self._save_task.done()
SavePending(ts, handle) == handle # 0 /\ ts[handle].state # "done"

Awaited(cs) == {cs[c].awaiting : c \in Cycles} \ {0}

\* a finished task nobody refers to any more is gone
Collect(ts, handle, cs) ==
    [t \in TaskIds |->
        IF ts[t].state = "done" /\ t # handle /\ t \notin Awaited(cs)
        THEN FreeTask ELSE ts[t]]

NewTaskId(ts) == CHOOSE t \in TaskIds :
    ts[t].state = "free" /\ \A u \in TaskIds : ts[u].state = "free" => t <= u

\* asyncio.create_task(_save_task_coro()): the task sleeps debounce_save_delay
CreateSaveTask(ts) ==
    [ts EXCEPT ![NewTaskId(ts)] =
        [state |-> "sleeping", left |-> debounce_save_delay, cancel |-> FALSE]]

(* ------------------------------- Init ---------------------------------- *)
Server(port) == [address |-> instance_host, port |-> port]

\* explicit server lists: one address, the same address repeated, distinct ones
ServerLists ==
    {[i \in 1..n |-> Server(1)] : n \in 1..MaxServers}
    \cup {[i \in 1..n |-> Server(i)] : n \in 1..MaxServers}

IdleCycle == [pc |-> "idle", old |-> <<>>, targets |-> <<>>, results |-> <<>>,
              awaiting |-> 0, left |-> 0]

\* missed is history: since the generator last read the store, a fire found
\* it not waiting
NoSub == [pc |-> "off", last_sent |-> [some |-> FALSE, val |-> <<>>],
          data |-> <<>>, left |-> 0, missed |-> FALSE]

\* shutdown has not been asked for
NotShutDown == [pc |-> "run", left |-> 0]

\* the object view of the lists of instances is not followed
NoHeap == <<>>
NoRefs == <<>>

\* no proxied request is being served
NoProxy == [pc |-> "idle", body |-> [kind |-> "none"], post |-> [made |-> FALSE],
            upstream |-> [exc |-> "None"], reply |-> [status |-> 0]]

\* the configuration file is not followed: it has been read into config
NoDisk == "read"

\* no single health answer is followed
NoHealth == [answer |-> [exc |-> "None"], srv_type |-> "None", old |-> <<>>,
             data |-> [pc |-> "pending", val |-> <<>>]]

ScenOff == [stage |-> 9, first |-> 0, later |-> 0, held |-> FALSE]

\* the state after construction and ConfigManager.async_init: the configuration
\* file has been read into config, nothing else has run
EngineAs(servers, end_port, snapshot, age, answers) ==
    /\ config = [instance_host |-> instance_host,
                 servers |-> servers, start_port |-> 1, end_port |-> end_port,
                 cached_instances |-> snapshot, cache_age |-> age]
    /\ file = snapshot
    /\ instances = <<>>
    /\ alive_cache = <<>>
    /\ tasks = [t \in TaskIds |-> FreeTask]
    /\ save_task = 0
    /\ cyc = [c \in Cycles |-> IdleCycle]
    /\ subs = [s \in Subs |-> NoSub]
    /\ phase = "init"
    /\ fleet = answers
    /\ fired = FALSE
    /\ burst = [changes |-> 0, writes |-> 0]
    /\ last_results = <<>>
    /\ scen = [stage |-> 0, first |-> 0, later |-> 0, held |-> FALSE]
    /\ shut = NotShutDown
    /\ heap = NoHeap
    /\ refs = NoRefs
    /\ access = {}

\* the engine alone: no proxied request, configuration file, resolver call or
\* single health answer is followed
InitAs(servers, end_port, snapshot, age, answers) ==
    /\ EngineAs(servers, end_port, snapshot, age, answers)
    /\ proxy = NoProxy
    /\ disk = NoDisk
    /\ resolved = <<>>
    /\ health = NoHealth
    /\ update_event = FALSE
    /\ sse_tasks = {}
    /\ io = "ok"

\* persisted snapshots of an earlier run: both scanned ports Offline, listed in
\* the reverse of the scan order; an instance outside the present targets; the
\* first target Online
SnapshotReversed ==
    <<Inst(AddrOf(instance_host, 2), "2.0", "Offline"),
      Inst(AddrOf(instance_host, 1), "2.0", "Offline")>>
SnapshotOutside ==
    <<Inst(AddrOf(instance_host, MaxPort + 1), "2.0", "Online")>>
SnapshotOnline ==
    <<Inst(AddrOf(instance_host, 1), "2.0", "Online")>>

\* every configuration: port sweep or explicit list, with and without a
\* persisted snapshot, fresh or stale
InitAll ==
    \/ \E snap \in {<<>>, SnapshotReversed, SnapshotOutside} :
          InitAs(<<>>, MaxPort, snap, 0, {"None", "2.0"})
    \/ InitAs(<<>>, MaxPort, SnapshotReversed, cache_ttl, {"None", "2.0"})
    \/ \E snap \in {<<>>, SnapshotOutside, SnapshotOnline} :
          InitAs(<<Server(1)>>, MaxPort, snap, 0, ProbeResults)
    \/ \E sl \in ServerLists : InitAs(sl, MaxPort, <<>>, 0, {"None", "2.0"})

\* one explicit server and no persisted snapshot
\* one explicit server, nothing restored; Scenario C is not followed
InitSub ==
    /\ config = [instance_host |-> instance_host,
                 servers |-> <<Server(1)>>, start_port |-> 1, end_port |-> MaxPort,
                 cached_instances |-> <<>>, cache_age |-> 0]
    /\ file = <<>> /\ instances = <<>> /\ alive_cache = <<>>
    /\ tasks = [t \in TaskIds |-> FreeTask] /\ save_task = 0
    /\ cyc = [c \in Cycles |-> IdleCycle]
    /\ subs = [s \in Subs |-> NoSub]
    /\ phase = "init" /\ fleet = {"None", "2.0"}
    /\ fired = FALSE /\ burst = [changes |-> 0, writes |-> 0]
    /\ last_results = <<>> /\ scen = ScenOff
    /\ shut = NotShutDown /\ heap = NoHeap /\ refs = NoRefs /\ access = {}
    /\ proxy = NoProxy /\ disk = NoDisk /\ resolved = <<>> /\ health = NoHealth
    /\ update_event = FALSE /\ sse_tasks = {} /\ io = "ok"

InitOne == InitAs(<<Server(1)>>, MaxPort, <<>>, 0, {"None", "2.0"})

(* ------------------------------ startup -------------------------------- *)
\* LifecycleManager._start_update_loop: load_initial_cache, then the loop task
\* a snapshot that is used also when it is exactly cache_ttl old
CacheUsableAtTtl(cfg) ==
    /\ cfg.cached_instances # <<>>
    /\ cfg.cache_age <= cache_ttl

\* the test of load_initial_cache: a snapshot, and younger than cache_ttl
CacheUsable(cfg) ==
    /\ cfg.cached_instances # <<>>
    /\ cfg.cache_age < cache_ttl

Startup ==
    /\ phase = "init"
    /\ instances' =
          IF CacheUsable(config)
          THEN config.cached_instances
          ELSE instances
    /\ phase' = "running"
    /\ cyc' = [cyc EXCEPT !["loop"].pc = "ready"]
    /\ fired' = FALSE
    /\ UNCHANGED <<config, file, alive_cache, tasks, save_task, subs, fleet>>
    /\ UNCHANGED <<burst, last_results, scen>>
    /\ UNCHANGED <<shut, heap, refs, access, aux>>

(* ------------------------------- probes -------------------------------- *)
\* a cache that is consulted for successful answers only
CacheHitSuccessOnly(cache, addr) ==
    /\ HasKey(cache, addr)
    /\ Get(cache, addr).age < instance_alive_cache_ttl
    /\ Get(cache, addr).result # "None"

CacheHit(cache, addr) ==
    /\ HasKey(cache, addr)
    /\ Get(cache, addr).age < instance_alive_cache_ttl

\* the first step of check_instance_alive: a fresh cache entry is returned,
\* otherwise the HTTP request is in flight
ProbeStart(cache, target) ==
    LET addr == AddrOf(target[1], target[2])
    IN  IF CacheHit(cache, addr) THEN Get(cache, addr).result ELSE "inflight"

\* perform_update up to the TaskGroup: snapshot of the store, targets, probes
StartCycle(c) ==
    LET targets == _get_target_addresses(config)
    IN  cyc' = [cyc EXCEPT ![c] =
                   [pc |-> "probing",
                    old |-> DictOf(instances),
                    targets |-> targets,
                    results |-> [i \in 1..Len(targets) |->
                                    ProbeStart(alive_cache, targets[i])],
                    awaiting |-> 0,
                    left |-> 0]]

InFlight(c) == cyc[c].pc \in {"probing", "cancelwait"}

\* async_update_loop: the first cycle at once, the next ones after the sleep
LoopCycleStart(overlap) ==
    /\ phase = "running"
    /\ \/ cyc["loop"].pc = "ready"
       \/ cyc["loop"].pc = "sleeping" /\ cyc["loop"].left = 0
    /\ overlap \/ ~InFlight("manual")
    /\ StartCycle("loop")
    /\ fired' = FALSE
    /\ UNCHANGED <<config, file, instances, alive_cache, tasks, save_task, subs,
                   phase, fleet>>
    /\ UNCHANGED <<burst, last_results, scen>>
    /\ UNCHANGED <<shut, heap, refs, access, aux>>

\* api_update_instances -> manual_update
ManualStart(overlap) ==
    /\ phase = "running"
    /\ shut.pc = "run"
    /\ cyc["manual"].pc = "idle"
    /\ overlap \/ ~InFlight("loop")
    /\ StartCycle("manual")
    /\ fired' = FALSE
    /\ UNCHANGED <<config, file, instances, alive_cache, tasks, save_task, subs,
                   phase, fleet>>
    /\ UNCHANGED <<burst, last_results, scen>>
    /\ UNCHANGED <<shut, heap, refs, access, aux>>

\* the HTTP request of one probe ends; the outcome is cached with the time
ProbeDone(c, i, r) ==
    /\ cyc[c].pc = "probing"
    /\ cyc[c].results[i] = "inflight"
    /\ r \in fleet \ {"Raise"}
    /\ cyc' = [cyc EXCEPT ![c].results[i] = r]
    /\ alive_cache' = DictSet(alive_cache,
          [addr |-> AddrOf(cyc[c].targets[i][1], cyc[c].targets[i][2]),
           result |-> r, age |-> 0])
    /\ fired' = FALSE
    /\ UNCHANGED <<config, file, instances, tasks, save_task, subs, phase, fleet>>
    /\ UNCHANGED <<burst, last_results, scen>>
    /\ UNCHANGED <<shut, heap, refs, access, aux>>

(* ------------------------- end of a scan cycle ------------------------- *)
\* a TaskGroup that is left as soon as one of its probes is done
SomeResolved(results) == \E i \in 1..Len(results) : results[i] # "inflight"

\* the TaskGroup block is left when every probe task is done
AllResolved(results) == \A i \in 1..Len(results) : results[i] # "inflight"

\* _get_updated_instance_data calls result.get on whatever res.json() gave:
\* a JSON body that is not an object raises AttributeError
ReconcileFails(results) == \E i \in 1..Len(results) : results[i] = "[]"

\* where a perform_update execution goes when it returns
Returned(c) ==
    IF c = "loop"
    THEN [IdleCycle EXCEPT !.pc = "sleeping", !.left = check_interval]
    ELSE IdleCycle

\* the wake-up of one waiter only
NotifyOne(ss) ==
    [s \in Subs |-> IF ss[s].pc = "wait" /\ \A r \in Subs : r < s => ss[r].pc # "wait"
                    THEN [ss[s] EXCEPT !.pc = "woken", !.left = 0]
                    ELSE IF ss[s].pc = "off" THEN ss[s]
                    ELSE [ss[s] EXCEPT !.missed = TRUE]]

\* asyncio.Event.set() and clear() on the flag
EventSet(flag) == TRUE
EventClear(flag) == FALSE

\* a fire that leaves the event set
FireNoClear(flag) == EventSet(flag)

\* update_event.set() and at once update_event.clear()
Fire(flag) == EventClear(EventSet(flag))

\* update_event.wait() of a generator that begins to wait: it returns at once
\* when the flag is set
Waits(sub, flag) ==
    IF sub.pc = "wait" /\ flag THEN [sub EXCEPT !.pc = "woken", !.left = 0] ELSE sub

\* update_event.set(): every generator blocked in update_event.wait() is woken;
\* update_event.clear() follows at once
Notify(ss) ==
    [s \in Subs |-> IF ss[s].pc = "wait"
                    THEN [ss[s] EXCEPT !.pc = "woken", !.left = 0]
                    ELSE IF ss[s].pc = "off" THEN ss[s]
                    ELSE [ss[s] EXCEPT !.missed = TRUE]]

\* history: Scenario C is the first target answering 2.0, nothing, 2.1 in the
\* first three cycles; the notifications of the first and of the later cycles
ScenStep(sc, result, fires, held) ==
    IF sc.stage = 0 /\ result = "2.0"
    THEN [stage |-> 1, first |-> fires, later |-> 0, held |-> held]
    ELSE IF sc.stage = 1 /\ result = "None"
    THEN [sc EXCEPT !.stage = 2, !.later = sc.later + fires]
    ELSE IF sc.stage = 2 /\ result = "2.1"
    THEN [sc EXCEPT !.stage = 3, !.later = sc.later + fires]
    ELSE ScenOff

\* history kept when the perform_update execution c returns
Completed(c, fires) ==
    /\ last_results' = cyc[c].results
    /\ scen' = ScenStep(scen, cyc[c].results[1], fires,
                         Inst(AddrOf(cyc[c].targets[1][1], cyc[c].targets[1][2]), "2.0", "Online")
                            \in {cyc[c].old[i] : i \in 1..Len(cyc[c].old)})

\* perform_update after the TaskGroup: reconcile, replace the store, then
\* _check_for_changes_and_notify up to the point where it has to wait for
\* the cancelled save task (or to its end)
CycleFinish(c) ==
    /\ cyc[c].pc = "probing"
    /\ AllResolved(cyc[c].results)
    /\ ~ReconcileFails(cyc[c].results)
    /\ LET temp == Reconcile(cyc[c].targets, cyc[c].results, cyc[c].old,
                             Len(cyc[c].targets))
       IN  /\ instances' = temp
           /\ IF HasChanged(cyc[c].old, temp)
              THEN /\ config' = [config EXCEPT !.cached_instances = temp,
                                               !.cache_age = 0]
                   /\ burst' = [changes |->
                                   IF burst.writes = 0 /\ burst.changes = 1
                                      /\ config.cache_age < debounce_save_delay
                                   THEN 2 ELSE IF burst.writes = 0 /\ burst.changes = 2
                                      /\ config.cache_age < debounce_save_delay
                                   THEN 2 ELSE 1,
                                writes |-> 0]
                   /\ IF SavePending(tasks, save_task)
                      THEN /\ tasks' = [tasks EXCEPT ![save_task].cancel = TRUE]
                           /\ cyc' = [cyc EXCEPT ![c].pc = "cancelwait",
                                                 ![c].awaiting = save_task]
                           /\ fired' = FALSE
                           /\ UNCHANGED <<save_task, subs, last_results, scen,
                                          update_event>>
                      ELSE /\ cyc' = [cyc EXCEPT ![c] = Returned(c)]
                           /\ LET ts == Collect(tasks, 0, cyc')
                              IN  /\ \E t \in TaskIds : ts[t].state = "free"
                                  /\ save_task' = NewTaskId(ts)
                                  /\ tasks' = CreateSaveTask(ts)
                           /\ subs' = Notify(subs)
                           /\ update_event' = Fire(update_event)
                           /\ fired' = TRUE
                           /\ Completed(c, 1)
              ELSE /\ cyc' = [cyc EXCEPT ![c] = Returned(c)]
                   /\ fired' = FALSE
                   /\ Completed(c, 0)
                   /\ UNCHANGED <<config, tasks, save_task, subs, burst, update_event>>
    /\ UNCHANGED <<file, alive_cache, phase, fleet>>
    /\ UNCHANGED <<shut, heap, refs, access>>
    /\ UNCHANGED <<proxy, disk, resolved, health, sse_tasks, io>>

\* _debounce_save_config after the wait for the cancelled task: the new task,
\* then back in _check_for_changes_and_notify the event is set and cleared
CycleResume(c) ==
    /\ cyc[c].pc = "cancelwait"
    /\ tasks[cyc[c].awaiting].state = "done"
    /\ cyc' = [cyc EXCEPT ![c] = Returned(c)]
    /\ LET ts == Collect(tasks, 0, cyc')
       IN  /\ \E t \in TaskIds : ts[t].state = "free"
           /\ save_task' = NewTaskId(ts)
           /\ tasks' = CreateSaveTask(ts)
    /\ subs' = Notify(subs)
    /\ update_event' = Fire(update_event)
    /\ fired' = TRUE
    /\ Completed(c, 1)
    /\ UNCHANGED <<config, file, instances, alive_cache, phase, fleet, burst>>
    /\ UNCHANGED <<shut, heap, refs, access>>
    /\ UNCHANGED <<proxy, disk, resolved, health, sse_tasks, io>>

(* --------------------------- a failing cycle --------------------------- *)
\* a loop that an error of perform_update sends straight into its next cycle
AfterFailureAtOnce(c) ==
    IF c = "loop" THEN [IdleCycle EXCEPT !.pc = "ready"] ELSE IdleCycle

\* a loop that an error of perform_update ends
AfterFailureStops(c) ==
    IF c = "loop" THEN [IdleCycle EXCEPT !.pc = "stopped"] ELSE IdleCycle

\* where an execution goes when perform_update raises: async_update_loop
\* logs the exception and goes on to asyncio.sleep(check_interval); a manual
\* refresh ends with the exception
AfterFailure(c) ==
    IF c = "loop"
    THEN [IdleCycle EXCEPT !.pc = "sleeping", !.left = check_interval]
    ELSE IdleCycle

\* the probe i raises an exception that check_instance_alive does not catch:
\* the TaskGroup cancels the probes still running and raises, the except*
\* clause of perform_update raises in turn, and perform_update is left before
\* anything is reconciled
ProbeRaise(c, i) ==
    /\ cyc[c].pc = "probing"
    /\ cyc[c].results[i] = "inflight"
    /\ "Raise" \in fleet
    /\ cyc' = [cyc EXCEPT ![c] = AfterFailure(c)]
    /\ fired' = FALSE
    /\ last_results' = [cyc[c].results EXCEPT ![i] = "Raise"]
    /\ scen' = ScenOff
    /\ UNCHANGED <<config, file, instances, alive_cache, tasks, save_task, subs,
                   phase, fleet, burst>>
    /\ UNCHANGED <<shut, heap, refs, access, aux>>

\* every probe is done and the reconciliation raises on a result: the store
\* is not replaced and _check_for_changes_and_notify is not reached
CycleFail(c) ==
    /\ cyc[c].pc = "probing"
    /\ AllResolved(cyc[c].results)
    /\ ReconcileFails(cyc[c].results)
    /\ cyc' = [cyc EXCEPT ![c] = AfterFailure(c)]
    /\ fired' = FALSE
    /\ last_results' = cyc[c].results
    /\ scen' = ScenOff
    /\ UNCHANGED <<config, file, instances, alive_cache, tasks, save_task, subs,
                   phase, fleet, burst>>
    /\ UNCHANGED <<shut, heap, refs, access, aux>>

(* --------------------------- the save task ----------------------------- *)
\* _save_task_coro: the sleep is over, save_config opens the file
SaveTaskWake(t) ==
    /\ tasks[t].state = "sleeping"
    /\ ~tasks[t].cancel
    /\ tasks[t].left = 0
    /\ tasks' = [tasks EXCEPT ![t].state = "writing"]
    /\ fired' = FALSE
    /\ UNCHANGED <<config, file, instances, alive_cache, save_task, cyc, subs,
                   phase, fleet>>
    /\ UNCHANGED <<burst, last_results, scen>>
    /\ UNCHANGED <<shut, heap, refs, access, aux>>

\* save_config writes model_dump_json of the current config; the task ends
SaveTaskWritten(t) ==
    /\ tasks[t].state = "writing"
    /\ ~tasks[t].cancel
    /\ io = "ok"
    /\ file' = config.cached_instances
    /\ tasks' = Collect([tasks EXCEPT ![t].state = "done"], save_task, cyc)
    /\ fired' = FALSE
    /\ burst' = [burst EXCEPT !.writes = IF @ < 2 THEN @ + 1 ELSE @]
    /\ UNCHANGED <<config, instances, alive_cache, save_task, cyc, subs, phase, fleet>>
    /\ UNCHANGED <<last_results, scen>>
    /\ UNCHANGED <<shut, heap, refs, access, aux>>

\* the cancelled task gets CancelledError at its await and ends without writing
SaveTaskCancelled(t) ==
    /\ tasks[t].state \in {"sleeping", "writing"}
    /\ tasks[t].cancel
    /\ tasks' = Collect([tasks EXCEPT ![t].state = "done"], save_task, cyc)
    /\ fired' = FALSE
    /\ UNCHANGED <<config, file, instances, alive_cache, save_task, cyc, subs,
                   phase, fleet>>
    /\ UNCHANGED <<burst, last_results, scen>>
    /\ UNCHANGED <<shut, heap, refs, access, aux>>

(* ------------------------------ shutdown ------------------------------- *)
\* task.cancel() on the loop task, by where the task is suspended.  In the
\* sleep (or before its first step) the CancelledError ends the task.  With
\* probes outstanding it is raised in the TaskGroup block of perform_update,
\* the except* clause there raises TypeError in its place, and the loop
\* handles that as a failed cycle.  In the wait for the cancelled save task
\* it is caught by _debounce_save_config, and the cycle goes on.
CancelLoop(cy) ==
    IF cy.pc \in {"ready", "sleeping"} THEN [IdleCycle EXCEPT !.pc = "stopped"]
    ELSE IF cy.pc = "probing" THEN AfterFailure("loop")
    ELSE cy

\* cancel_pending_save_task: self._save_task.cancel()
CancelSave(ts, handle) == [ts EXCEPT ![handle].cancel = TRUE]

\* _cancel_update_task: cancel() and the start of wait_for(timeout=10.0).
\* shutdown is the after_serving hook: the server has ended the request
\* handlers before it runs
ShutdownBegin ==
    /\ phase = "running"
    /\ shut.pc = "run"
    /\ ~InFlight("manual")
    /\ cyc' = [cyc EXCEPT !["loop"] = CancelLoop(@)]
    /\ shut' = IF cyc'["loop"].pc = "stopped"
               THEN [shut EXCEPT !.pc = "sse"]
               ELSE [shut EXCEPT !.pc = "loop_wait", !.left = update_task_wait]
    /\ fired' = FALSE
    /\ UNCHANGED <<config, file, instances, alive_cache, tasks, save_task, subs,
                   phase, fleet>>
    /\ UNCHANGED <<burst, last_results, scen>>
    /\ UNCHANGED <<heap, refs, access, aux>>

\* the timeout of that wait_for: it cancels the task once more and waits
\* until the task is done, with no timeout; only then TimeoutError is raised
\* and logged
ShutdownLoopTimeout ==
    /\ shut.pc = "loop_wait"
    /\ shut.left = 0
    /\ cyc' = [cyc EXCEPT !["loop"] = CancelLoop(@)]
    /\ shut' = IF cyc'["loop"].pc = "stopped"
               THEN [shut EXCEPT !.pc = "sse"]
               ELSE [shut EXCEPT !.pc = "loop_stuck"]
    /\ fired' = FALSE
    /\ UNCHANGED <<config, file, instances, alive_cache, tasks, save_task, subs,
                   phase, fleet>>
    /\ UNCHANGED <<burst, last_results, scen>>
    /\ UNCHANGED <<heap, refs, access, aux>>

\* _cancel_sse_tasks: every tracked task is cancelled and its generator
\* ends; then the set is cleared
ShutdownCancelSse ==
    /\ shut.pc = "sse"
    /\ subs' = [s \in Subs |-> IF s \in sse_tasks THEN NoSub ELSE subs[s]]
    /\ sse_tasks' = {}
    /\ shut' = [shut EXCEPT !.pc = "save"]
    /\ fired' = FALSE
    /\ UNCHANGED <<config, file, instances, alive_cache, tasks, save_task, cyc,
                   phase, fleet>>
    /\ UNCHANGED <<burst, last_results, scen>>
    /\ UNCHANGED <<heap, refs, access>>
    /\ UNCHANGED <<proxy, disk, resolved, health, update_event, io>>

\* _cancel_pending_save_task: the task of the handle is cancelled if it is
\* not done, and awaited
ShutdownCancelSave ==
    /\ shut.pc = "save"
    /\ IF SavePending(tasks, save_task)
       THEN /\ tasks' = CancelSave(tasks, save_task)
            /\ shut' = [shut EXCEPT !.pc = "save_wait"]
       ELSE /\ shut' = [shut EXCEPT !.pc = "final"]
            /\ UNCHANGED tasks
    /\ fired' = FALSE
    /\ UNCHANGED <<config, file, instances, alive_cache, save_task, cyc, subs,
                   phase, fleet>>
    /\ UNCHANGED <<burst, last_results, scen>>
    /\ UNCHANGED <<heap, refs, access, aux>>

\* the awaited save task is done
ShutdownSaveDone ==
    /\ shut.pc = "save_wait"
    /\ ~SavePending(tasks, save_task)
    /\ shut' = [shut EXCEPT !.pc = "final"]
    /\ fired' = FALSE
    /\ UNCHANGED <<config, file, instances, alive_cache, tasks, save_task, cyc, subs,
                   phase, fleet>>
    /\ UNCHANGED <<burst, last_results, scen>>
    /\ UNCHANGED <<heap, refs, access, aux>>

\* _update_and_save_config_cache: the store is copied into the config with
\* the time of the copy
ShutdownCopy ==
    /\ shut.pc = "final"
    /\ config' = [config EXCEPT !.cached_instances = instances, !.cache_age = 0]
    /\ shut' = [shut EXCEPT !.pc = "write"]
    /\ fired' = FALSE
    /\ UNCHANGED <<file, instances, alive_cache, tasks, save_task, cyc, subs,
                   phase, fleet>>
    /\ UNCHANGED <<burst, last_results, scen>>
    /\ UNCHANGED <<heap, refs, access, aux>>

\* save_config writes the file; then the HTTP clients are closed
ShutdownWrite ==
    /\ shut.pc = "write"
    /\ io = "ok"
    /\ file' = config.cached_instances
    /\ shut' = [shut EXCEPT !.pc = "closed"]
    /\ fired' = FALSE
    /\ UNCHANGED <<config, instances, alive_cache, tasks, save_task, cyc, subs,
                   phase, fleet>>
    /\ UNCHANGED <<burst, last_results, scen>>
    /\ UNCHANGED <<heap, refs, access, aux>>

(* ---------------------------- subscribers ------------------------------ *)
\* AppCore.add_sse_task and remove_sse_task
add_sse_task(set, task) == set \cup {task}

\* a generator that ends without its finally clause
RemoveNothing(set, task) == set

remove_sse_task(set, task) == set \ {task}

\* GET /api/instances: the generator starts, its task is tracked, and it
\* blocks in its first wait
SubConnect(s) ==
    /\ phase = "running"
    /\ shut.pc = "run"
    /\ subs[s].pc = "off"
    /\ sse_tasks' = add_sse_task(sse_tasks, s)
    /\ subs' = [subs EXCEPT ![s] = Waits([NoSub EXCEPT !.pc = "wait",
                                                       !.left = sse_wait_timeout],
                                         update_event)]
    /\ fired' = FALSE
    /\ UNCHANGED <<config, file, instances, alive_cache, tasks, save_task, cyc,
                   phase, fleet>>
    /\ UNCHANGED <<burst, last_results, scen>>
    /\ UNCHANGED <<shut, heap, refs, access>>
    /\ UNCHANGED <<proxy, disk, resolved, health, update_event, io>>

\* the generator ends: its task is cancelled when the client has gone
\* (CancelledError in the wait, or the generator closed at its yield), or an
\* error is raised in it; the finally clause untracks the task
SubEnds(s) ==
    /\ subs[s].pc # "off"
    /\ sse_tasks' = remove_sse_task(sse_tasks, s)
    /\ subs' = [subs EXCEPT ![s] = NoSub]
    /\ fired' = FALSE
    /\ UNCHANGED <<config, file, instances, alive_cache, tasks, save_task, cyc,
                   phase, fleet>>
    /\ UNCHANGED <<burst, last_results, scen>>
    /\ UNCHANGED <<shut, heap, refs, access>>
    /\ UNCHANGED <<proxy, disk, resolved, health, update_event, io>>

\* the payload is yielded whether it differs from the last one or not
AlwaysPush(sub) ==
    [sub EXCEPT !.pc = "push", !.data = instances, !.left = 0, !.missed = FALSE]

\* last_sent starts as an empty list, not as None
FirstComparedToEmpty(sub) ==
    IF (IF sub.last_sent.some THEN sub.last_sent.val ELSE <<>>) # instances
    THEN [sub EXCEPT !.pc = "push", !.data = instances, !.left = 0,
                     !.missed = FALSE]
    ELSE [sub EXCEPT !.pc = "wait", !.left = sse_wait_timeout, !.missed = FALSE]

\* a generator that serves the persisted file
ReadFile(sub) ==
    IF sub.last_sent # [some |-> TRUE, val |-> file]
    THEN [sub EXCEPT !.pc = "push", !.data = file, !.left = 0,
                     !.missed = FALSE]
    ELSE [sub EXCEPT !.pc = "wait", !.left = sse_wait_timeout, !.missed = FALSE]

\* the generator after its wait: it reads the store and yields the payload if
\* that differs from last_sent, else it waits again
ReadAndPush(sub) ==
    IF sub.last_sent # [some |-> TRUE, val |-> instances]
    THEN [sub EXCEPT !.pc = "push", !.data = instances, !.left = 0,
                     !.missed = FALSE]
    ELSE [sub EXCEPT !.pc = "wait", !.left = sse_wait_timeout, !.missed = FALSE]

\* the wait returned because update_event was set
SubWoken(s) ==
    /\ subs[s].pc = "woken"
    /\ update_event' = EventClear(update_event)
    /\ subs' = [subs EXCEPT ![s] = Waits(ReadAndPush(subs[s]), update_event')]
    /\ fired' = FALSE
    /\ UNCHANGED <<config, file, instances, alive_cache, tasks, save_task, cyc,
                   phase, fleet>>
    /\ UNCHANGED <<burst, last_results, scen>>
    /\ UNCHANGED <<shut, heap, refs, access>>
    /\ UNCHANGED <<proxy, disk, resolved, health, sse_tasks, io>>

\* a timeout that only starts the next wait, without reading the store
TimeoutWaitsAgain(s) ==
    /\ subs[s].pc = "wait"
    /\ subs[s].left = 0
    /\ subs' = [subs EXCEPT ![s].left = sse_wait_timeout]
    /\ fired' = FALSE
    /\ UNCHANGED <<config, file, instances, alive_cache, tasks, save_task, cyc,
                   phase, fleet>>
    /\ UNCHANGED <<burst, last_results, scen>>
    /\ UNCHANGED <<shut, heap, refs, access, aux>>

\* the wait ended with asyncio.TimeoutError
SubTimeout(s) ==
    /\ subs[s].pc = "wait"
    /\ subs[s].left = 0
    /\ subs' = [subs EXCEPT ![s] = Waits(ReadAndPush(subs[s]), update_event)]
    /\ fired' = FALSE
    /\ UNCHANGED <<config, file, instances, alive_cache, tasks, save_task, cyc,
                   phase, fleet>>
    /\ UNCHANGED <<burst, last_results, scen>>
    /\ UNCHANGED <<shut, heap, refs, access, aux>>

\* the payload has gone to the client: last_sent = data, and the next wait
SubSent(s) ==
    /\ subs[s].pc = "push"
    /\ subs' = [subs EXCEPT ![s] =
                   Waits([pc |-> "wait",
                          last_sent |-> [some |-> TRUE, val |-> subs[s].data],
                          data |-> <<>>, left |-> sse_wait_timeout,
                          missed |-> subs[s].missed], update_event)]
    /\ fired' = FALSE
    /\ UNCHANGED <<config, file, instances, alive_cache, tasks, save_task, cyc,
                   phase, fleet>>
    /\ UNCHANGED <<burst, last_results, scen>>
    /\ UNCHANGED <<shut, heap, refs, access, aux>>

(* -------------------------------- time --------------------------------- *)
RECURSIVE AgedCache(_)
\* an entry as old as the TTL is never returned again: it leaves the model
AgedCache(cache) ==
    IF cache = <<>> THEN <<>>
    ELSE LET e == cache[1]
         IN  (IF e.age + 1 < instance_alive_cache_ttl
              THEN <<[e EXCEPT !.age = e.age + 1]>> ELSE <<>>)
             \o AgedCache(Tail(cache))

Tick ==
    /\ config' = [config EXCEPT !.cache_age = Older(@)]
    /\ alive_cache' = AgedCache(alive_cache)
    /\ tasks' = [t \in TaskIds |-> [tasks[t] EXCEPT !.left = Less(@)]]
    /\ cyc' = [c \in Cycles |-> [cyc[c] EXCEPT !.left = Less(@)]]
    /\ subs' = [s \in Subs |-> [subs[s] EXCEPT !.left = Less(@)]]
    /\ fired' = FALSE
    /\ UNCHANGED <<file, instances, save_task, phase, fleet>>
    /\ UNCHANGED <<burst, last_results, scen>>
    /\ shut' = [shut EXCEPT !.left = Less(@)]
    /\ UNCHANGED <<heap, refs, access, aux>>

(* ------------------------------- specs --------------------------------- *)
Probe == \E c \in Cycles : \E i \in 1..MaxPort + MaxServers : \E r \in ProbeResults :
            i <= Len(cyc[c].results) /\ ProbeDone(c, i, r)
Finish == \E c \in Cycles : CycleFinish(c)
Resume == \E c \in Cycles : CycleResume(c)
SaveWake == \E t \in TaskIds : SaveTaskWake(t)
SaveWritten == \E t \in TaskIds : SaveTaskWritten(t)
SaveCancelled == \E t \in TaskIds : SaveTaskCancelled(t)
Connect == \E s \in Subs : SubConnect(s)
Woken == \E s \in Subs : SubWoken(s)
Timeout == \E s \in Subs : SubTimeout(s)
Sent == \E s \in Subs : SubSent(s)

\* the engine with scan cycles one at a time and no subscriber connected
SeqNext ==
    \/ Startup
    \/ LoopCycleStart(FALSE)
    \/ ManualStart(FALSE)
    \/ Probe
    \/ Finish
    \/ Resume
    \/ SaveWake
    \/ SaveWritten
    \/ SaveCancelled
    \/ Tick

SeqSpec == InitAll /\ [][SeqNext]_vars

\* a manual refresh may overlap the scheduled cycle
Next ==
    \/ Startup
    \/ LoopCycleStart(TRUE)
    \/ ManualStart(TRUE)
    \/ Probe
    \/ Finish
    \/ Resume
    \/ SaveWake
    \/ SaveWritten
    \/ SaveCancelled
    \/ Tick

Spec == InitOne /\ [][Next]_vars

\* subscribers and the scan loop
SubNext ==
    \/ Startup
    \/ LoopCycleStart(FALSE)
    \/ Probe
    \/ Finish
    \/ Resume
    \/ SaveWake
    \/ SaveWritten
    \/ SaveCancelled
    \/ Connect
    \/ Woken
    \/ Timeout
    \/ Sent
    \/ Tick

SubSpec == InitSub /\ [][SubNext]_vars

\* the scan loop alone, with probes that raise and health answers that are
\* not JSON objects
ProbeAny == \E c \in Cycles : \E i \in 1..MaxPort + MaxServers : \E r \in fleet :
               i <= Len(cyc[c].results) /\ ProbeDone(c, i, r)
Raise == \E c \in Cycles : \E i \in 1..MaxPort + MaxServers :
            i <= Len(cyc[c].results) /\ ProbeRaise(c, i)
Fail == \E c \in Cycles : CycleFail(c)

InitErr == InitAs(<<Server(1), Server(2)>>, MaxPort, <<>>, 0,
                  {"None", "2.0", "Raise", "[]"})

ErrNext ==
    \/ Startup
    \/ LoopCycleStart(FALSE)
    \/ ProbeAny
    \/ Raise
    \/ Finish
    \/ Fail
    \/ Resume
    \/ SaveWake
    \/ SaveWritten
    \/ SaveCancelled
    \/ Tick

ErrSpec == InitErr /\ [][ErrNext]_vars

\* the same loop with one configured server.  Time passes, and the event
\* loop runs a task that is ready: the loop task after its sleep, after a
\* probe's answer or failure (each request ends, by scan_timeout at the
\* latest), and a cancelled save task
InitLive == InitAs(<<Server(1)>>, MaxPort, <<>>, 0, {"None", "2.0", "Raise", "[]"})

LoopRuns ==
    \/ Startup
    \/ LoopCycleStart(FALSE)
    \/ ProbeAny
    \/ Raise
    \/ Finish
    \/ Fail
    \/ Resume
    \/ SaveCancelled

LiveSpec ==
    /\ InitLive
    /\ [][ErrNext]_vars
    /\ WF_vars(LoopRuns)
    /\ WF_vars(Tick)

\* the scan loop and a shutdown at any moment.  Time passes, and the event
\* loop runs a task that is ready: the loop task, a cancelled save task, and
\* the coroutine of the shutdown once it has been started
ShutNext ==
    \/ Startup
    \/ LoopCycleStart(FALSE)
    \/ Probe
    \/ Finish
    \/ Resume
    \/ SaveWake
    \/ SaveWritten
    \/ SaveCancelled
    \/ Tick
    \/ ShutdownBegin
    \/ ShutdownLoopTimeout
    \/ ShutdownCancelSse
    \/ ShutdownCancelSave
    \/ ShutdownSaveDone
    \/ ShutdownCopy
    \/ ShutdownWrite

TasksRun ==
    \/ Startup
    \/ LoopCycleStart(FALSE)
    \/ Probe
    \/ Finish
    \/ Resume
    \/ SaveCancelled

ShutdownRuns ==
    \/ ShutdownLoopTimeout
    \/ ShutdownCancelSse
    \/ ShutdownCancelSave
    \/ ShutdownSaveDone
    \/ ShutdownCopy
    \/ ShutdownWrite

ShutSpec ==
    /\ InitOne
    /\ [][ShutNext]_vars
    /\ WF_vars(TasksRun)
    /\ WF_vars(ShutdownRuns)
    /\ WF_vars(Tick)

\* a shutdown at any moment of the engine in which a manual refresh may
\* overlap the scheduled cycle
OverlapShutNext ==
    \/ Startup
    \/ LoopCycleStart(TRUE)
    \/ ManualStart(TRUE)
    \/ Probe
    \/ Finish
    \/ Resume
    \/ SaveWake
    \/ SaveWritten
    \/ SaveCancelled
    \/ Tick
    \/ ShutdownBegin
    \/ ShutdownLoopTimeout
    \/ ShutdownCancelSse
    \/ ShutdownCancelSave
    \/ ShutdownSaveDone
    \/ ShutdownCopy
    \/ ShutdownWrite

OverlapShutSpec == InitOne /\ [][OverlapShutNext]_vars

(* ------------------- the store as a list of objects -------------------- *)
\* The instance lists are Python lists of dict objects.  Here a list is a
\* sequence of object ids and heap gives each object its fields, so that two
\* lists can hold the same object.
ObjIds == 1..MaxObjs
Callers == 1..MaxCallers
NoObj == [addr |-> <<>>, version |-> "", status |-> ""]

\* the records a list of object ids shows
View(h, list) == [i \in 1..Len(list) |-> h[list[i]]]
Ids(list) == {list[i] : i \in 1..Len(list)}
Reach(r) ==
    Ids(r.store) \cup Ids(r.cached)
    \cup UNION {Ids(r.old[c]) : c \in Cycles}
    \cup UNION {Ids(r.snap[k]) : k \in Callers}

\* objects no list refers to are gone
Collected(h, r) == [o \in ObjIds |-> IF o \in Reach(r) THEN h[o] ELSE NoObj]

RECURSIVE NewObjects(_, _)
\* n new dict objects: the lowest ids that are not in use
NewObjects(used, n) ==
    IF n = 0 THEN <<>>
    ELSE LET o == CHOOSE x \in ObjIds \ used : \A y \in ObjIds \ used : x <= y
         IN  <<o>> \o NewObjects(used \cup {o}, n - 1)

\* one access to self.instances: the line, read or write, and whether the
\* coroutine is inside "async with self.instances_lock"
Access(line, op, locked) == [line |-> line, op |-> op, locked |-> locked]

\* get_instances reading the store without the lock
GetAccessUnlocked == {Access(315, "read", FALSE)}

\* get_instances: self.instances.copy() under the lock
GetAccess == {Access(315, "read", TRUE)}

\* any(i['addr'] == addr and i['status'] == 'Online' for i in self.instances)
check_instance_online(h, r, addr) ==
    \E i \in 1..Len(r.store) :
       h[r.store[i]].addr = addr /\ h[r.store[i]].status = "Online"

\* one configured server; config.cached_instances is empty or holds one
\* record object
ObjInit ==
    /\ config = [instance_host |-> instance_host,
                 servers |-> <<Server(1)>>, start_port |-> 1, end_port |-> MaxPort,
                 cached_instances |-> <<>>, cache_age |-> 0]
    /\ file = <<>> /\ instances = <<>> /\ alive_cache = <<>>
    /\ tasks = [t \in TaskIds |-> FreeTask] /\ save_task = 0
    /\ cyc = [c \in Cycles |-> IdleCycle]
    /\ subs = [s \in Subs |-> NoSub]
    /\ phase = "init" /\ fleet = {"None", "2.0"}
    /\ fired = FALSE /\ burst = [changes |-> 0, writes |-> 0]
    /\ last_results = <<>> /\ scen = ScenOff
    /\ shut = NotShutDown /\ access = {}
    /\ proxy = NoProxy /\ disk = NoDisk /\ resolved = <<>> /\ health = NoHealth
    /\ update_event = FALSE /\ sse_tasks = {} /\ io = "ok"
    /\ \E snapshot \in {<<>>, SnapshotOnline} :
          /\ refs = [store |-> <<>>,
                     cached |-> NewObjects({}, Len(snapshot)),
                     old |-> [c \in Cycles |-> <<>>],
                     snap |-> [k \in Callers |-> <<>>],
                     run |-> {}]
          /\ heap = [o \in ObjIds |-> IF o <= Len(snapshot) THEN snapshot[o] ELSE NoObj]

\* load_initial_cache: self.instances[:] = instances puts the objects of
\* config.cached_instances themselves into the store
ObjLoad ==
    /\ phase = "init"
    /\ phase' = "running"
    /\ refs' = [refs EXCEPT !.store = IF refs.cached # <<>> THEN refs.cached ELSE @]
    /\ access' = IF refs.cached # <<>> THEN {Access(73, "write", TRUE)} ELSE {}
    /\ UNCHANGED <<config, file, instances, alive_cache, tasks, save_task, cyc, subs, fleet>>
    /\ UNCHANGED <<aux, hist, shut, heap>>

\* perform_update, lines 172-173: old_instances = {i['addr']: i for i in
\* self.instances} holds the objects of the store
ObjCycleStart(c) ==
    /\ phase = "running"
    /\ c \notin refs.run
    /\ refs' = [refs EXCEPT !.old[c] = refs.store, !.run = @ \cup {c}]
    /\ access' = {Access(173, "read", TRUE)}
    /\ UNCHANGED <<aux, prog, hist, shut, heap>>

\* perform_update from the results on: the reconciled records are new
\* objects, the store gets them, and after a change config.cached_instances
\* is self.instances.copy(), a new list of the same objects
ObjCycleReplace(c, results) ==
    /\ phase = "running"
    /\ c \in refs.run
    /\ LET targets == _get_target_addresses(config)
           old_instances == View(heap, refs.old[c])
           temp == Reconcile(targets, results, old_instances, Len(targets))
           kept == Ids(refs.cached)
                   \cup UNION {Ids(refs.old[d]) : d \in Cycles \ {c}}
                   \cup UNION {Ids(refs.snap[k]) : k \in Callers}
           new == NewObjects(kept, Len(temp))
           changed == HasChanged(old_instances, temp)
           r == [refs EXCEPT !.store = new,
                             !.cached = IF changed THEN new ELSE @,
                             !.old[c] = <<>>,
                             !.run = @ \ {c}]
       IN  /\ refs' = r
           /\ heap' = Collected([o \in ObjIds |->
                                   IF \E i \in 1..Len(new) : new[i] = o
                                   THEN temp[CHOOSE i \in 1..Len(new) : new[i] = o]
                                   ELSE heap[o]], r)
           /\ access' = {Access(200, "write", TRUE), Access(246, "read", FALSE)}
                        \cup (IF changed THEN {Access(234, "read", FALSE)} ELSE {})
    /\ UNCHANGED <<aux, prog, hist, shut>>

\* get_instances: a new list of the objects of the store
ObjGetInstances(k) ==
    /\ phase = "running"
    /\ refs' = [refs EXCEPT !.snap[k] = refs.store]
    /\ heap' = Collected(heap, refs')
    /\ access' = GetAccess
    /\ UNCHANGED <<aux, prog, hist, shut>>

\* check_instance_online reads the store under the lock
ObjCheckOnline ==
    /\ phase = "running"
    /\ access' = {Access(304, "read", TRUE)}
    /\ UNCHANGED <<aux, prog, hist, shut, heap, refs>>

\* a caller of get_instances writes the status field of a record of the
\* list it got
ObjMutateField(k, i) ==
    /\ i \in 1..Len(refs.snap[k])
    /\ heap' = [heap EXCEPT ![refs.snap[k][i]].status =
                               IF @ = "Online" THEN "Offline" ELSE "Online"]
    /\ access' = {}
    /\ UNCHANGED <<aux, prog, hist, shut, refs>>

\* a caller of get_instances removes the first record of the list it got
ObjMutateList(k) ==
    /\ refs.snap[k] # <<>>
    /\ refs' = [refs EXCEPT !.snap[k] = Tail(@)]
    /\ heap' = Collected(heap, refs')
    /\ access' = {}
    /\ UNCHANGED <<aux, prog, hist, shut>>

\* _update_and_save_config_cache: config.cached_instances becomes
\* self.instances.copy() under the lock
ObjShutdownCopy ==
    /\ phase = "running"
    /\ phase' = "stopped"
    /\ refs' = [refs EXCEPT !.cached = refs.store]
    /\ heap' = Collected(heap, refs')
    /\ access' = {Access(161, "read", TRUE)}
    /\ UNCHANGED <<config, file, instances, alive_cache, tasks, save_task, cyc, subs, fleet>>
    /\ UNCHANGED <<aux, hist, shut>>

CycleStartObj == ObjCycleStart("loop")
CycleReplaceObj ==
    \E results \in [1..Len(_get_target_addresses(config)) -> fleet] :
       ObjCycleReplace("loop", results)
GetInstancesObj == \E k \in Callers : ObjGetInstances(k)
MutateFieldObj == \E k \in Callers : \E i \in 1..MaxPort : ObjMutateField(k, i)
MutateListObj == \E k \in Callers : ObjMutateList(k)

ObjNext ==
    \/ ObjLoad
    \/ CycleStartObj
    \/ CycleReplaceObj
    \/ GetInstancesObj
    \/ ObjCheckOnline
    \/ MutateFieldObj
    \/ MutateListObj
    \/ ObjShutdownCopy

ObjSpec == ObjInit /\ [][ObjNext]_vars

(* --------------------------- health endpoint --------------------------- *)
\* what a GET of /api/health can end with: an httpx.RequestError (no
\* connection, timeout), or a response with a status code and a body
HealthBodies ==
    {"<html>", "null", "[]", "{uptime: 5}", "{version: 2.0}", "{version: 2.1}"}
HealthAnswers ==
    [exc : {"ConnectError", "TimeoutException"}]
        \cup [status_code : {200, 204, 500}, body : HealthBodies]

\* res.json(): the parsed body in the encoding of the probe results
\* ("None": null, "{}": an object without version, "[]": an array)
Json(body) ==
    CASE body = "<html>" -> "ValueError"
      [] body = "null" -> "None"
      [] body = "[]" -> "[]"
      [] body = "{uptime: 5}" -> "{}"
      [] body = "{version: 2.0}" -> "2.0"
      [] body = "{version: 2.1}" -> "2.1"

\* a probe that takes every response with a body that parses for an answer
AnyStatus(answer) ==
    IF "exc" \in DOMAIN answer THEN "None"
    ELSE IF Json(answer.body) = "ValueError" THEN "None" ELSE Json(answer.body)

\* check_instance_alive, from the end of the request to its result
HealthResult(answer) ==
    IF "exc" \in DOMAIN answer THEN "None"
    ELSE IF answer.status_code = 200
         THEN IF Json(answer.body) = "ValueError" THEN "None" ELSE Json(answer.body)
         ELSE "None"

\* the records the address of the probed target can have from the cycle before
HealthOlds ==
    {<<>>, <<Inst(AddrOf(instance_host, 1), "2.1", "Online")>>,
     <<Inst(AddrOf(instance_host, 1), "2.0", "Offline")>>}

HealthInit ==
    /\ EngineAs(<<Server(1)>>, MaxPort, <<>>, 0, {"None", "2.0"})
    /\ proxy = NoProxy /\ disk = NoDisk /\ resolved = <<>>
    /\ update_event = FALSE /\ sse_tasks = {} /\ io = "ok"
    /\ \E answer \in HealthAnswers, srv_type \in {"list", "autoscan"}, old \in HealthOlds :
          health = [answer |-> answer, srv_type |-> srv_type, old |-> old,
                    data |-> NoHealth.data]

\* one target from its health answer to instance_data in perform_update
HealthRecord ==
    /\ health.data.pc = "pending"
    /\ health.srv_type # "None"
    /\ LET result == HealthResult(health.answer)
       IN  health' = [health EXCEPT !.data =
              IF result = "[]" THEN [pc |-> "AttributeError", val |-> <<>>]
              ELSE [pc |-> "returned",
                    val |-> _get_updated_instance_data(AddrOf(instance_host, 1),
                                health.srv_type, result, health.old)]]
    /\ UNCHANGED <<prog, hist, ext, proxy, disk, resolved, track>>

HealthSpec == HealthInit /\ [][HealthRecord]_vars

(* ------------------------- configuration file -------------------------- *)
\* AppConfig.model_validate({}): the built-in defaults; cache_timestamp 0.0 is
\* an age beyond every TTL
Defaults ==
    [instance_host |-> "127.0.0.1", start_port |-> 9200, end_port |-> 9300,
     servers |-> <<>>, check_interval |-> 300, scan_timeout |-> 5,
     proxy_timeout |-> 15, cache_ttl |-> 10, instance_alive_cache_ttl |-> 5,
     debounce_save_delay |-> 5, cached_instances |-> <<>>, cache_age |-> AgeCap]

\* the keys of the file that a field of AppConfig is read from
FileKeys == DOMAIN Defaults \ {"cached_instances", "cache_age"}

\* host texts: empty, localhost, an IP address, a domain, a bare name, a
\* host with a port, a URL
HostTexts ==
    {"", "localhost", "127.0.0.1", "10.0.0.1", "astra.example.com", "astra",
     "10.0.0.1:80", "http://10.0.0.1"}
\* ':' in v or v.lower().startswith(('http://', 'https://'))
HasPortOrScheme(v) == v \in {"10.0.0.1:80", "http://10.0.0.1"}
\* ipaddress.ip_address(v) accepts v
IsIpAddress(v) == v \in {"127.0.0.1", "10.0.0.1"}
\* DOMAIN_REGEX.match(v)
IsDomain(v) == v = "astra.example.com"

\* validate_host and Instance.validate_address accept v
validate_address(v) ==
    /\ v # ""
    /\ ~HasPortOrScheme(v)
    /\ v = "localhost" \/ IsIpAddress(v) \/ IsDomain(v)

\* Field(..., ge=1, le=65535)
PortOk(p) == 1 <= p /\ p <= 65535

\* an item of servers becomes an Instance: a dict with a valid address and port
InstanceOk(item) ==
    /\ DOMAIN item = {"address", "port"}
    /\ validate_address(item.address)
    /\ PortOk(item.port)

\* the fields declared with gt=0
PositiveFields ==
    {"check_interval", "scan_timeout", "proxy_timeout", "cache_ttl",
     "instance_alive_cache_ttl", "debounce_save_delay"}

\* the model built from data: every key of the file over its default
Applied(data) ==
    [k \in DOMAIN Defaults |-> IF k \in DOMAIN data THEN data[k] ELSE Defaults[k]]

\* AppConfig.model_validate(data) raises no ValidationError: the fields, then
\* validate_ports
model_validate(data) ==
    /\ validate_address(Applied(data).instance_host)
    /\ PortOk(Applied(data).start_port) /\ PortOk(Applied(data).end_port)
    /\ \A i \in 1..Len(Applied(data).servers) : InstanceOk(Applied(data).servers[i])
    /\ \A k \in PositiveFields : Applied(data)[k] > 0
    /\ Applied(data).start_port < Applied(data).end_port

\* the file after model_dump_json of the defaults
DefaultFile == [kind |-> "object", data |-> [k \in FileKeys |-> Defaults[k]]]

\* items of a server list: two valid ones, an address with a scheme, a bare
\* name, a port out of range, an item that is no dict, an item without port
ServerItems ==
    {[address |-> "10.0.0.1", port |-> 1], [address |-> "localhost", port |-> 2],
     [address |-> "http://10.0.0.1", port |-> 1], [address |-> "astra", port |-> 1],
     [address |-> "10.0.0.1", port |-> 0], [scalar |-> 5],
     [address |-> "10.0.0.1"]}
FileServers ==
    {<<>>} \cup {<<x>> : x \in ServerItems} \cup {<<x, y>> : x, y \in ServerItems}

\* what the configuration file can hold: nothing, bytes that are no UTF-8
\* text, text that is no JSON, a JSON value that is no object, an object
FileContents ==
    [kind : {"missing", "undecodable", "malformed", "array"}]
    \cup [kind : {"object"},
          data : [start_port : {0, 1, 2}, end_port : {2, 3, 65536},
                  servers : FileServers, check_interval : {0, 1},
                  scan_timeout : {-1, 1}]]
    \cup [kind : {"object"},
          data : {<<>>, [start_port |-> 9300], [end_port |-> 9200],
                  [instance_host |-> "astra.example.com"],
                  [instance_host |-> "http://10.0.0.1"],
                  [start_port |-> 1, end_port |-> 2, proxy_timeout |-> 0],
                  [servers |-> <<[address |-> "astra.example.com", port |-> 65535]>>,
                   debounce_save_delay |-> 0]}]

\* ConfigManager.__init__: the defaults, the file not yet read
ConfInit ==
    /\ config = Defaults
    /\ disk \in FileContents
    /\ phase = "new"
    /\ resolved = <<>>
    /\ file = <<>> /\ instances = <<>> /\ alive_cache = <<>>
    /\ tasks = [t \in TaskIds |-> FreeTask] /\ save_task = 0
    /\ cyc = [c \in Cycles |-> IdleCycle]
    /\ subs = [s \in Subs |-> NoSub]
    /\ fleet = {"None", "2.0"}
    /\ fired = FALSE /\ burst = [changes |-> 0, writes |-> 0]
    /\ last_results = <<>> /\ scen = ScenOff
    /\ shut = NotShutDown /\ heap = NoHeap /\ refs = NoRefs /\ access = {}
    /\ proxy = NoProxy /\ health = NoHealth
    /\ update_event = FALSE /\ sse_tasks = {} /\ io = "ok"

\* ConfigManager.async_init -> _load_config
LoadConfig ==
    /\ phase = "new"
    /\ CASE disk.kind = "missing" ->
              /\ disk' = DefaultFile /\ config' = Defaults /\ phase' = "init"
         [] disk.kind = "undecodable" ->
              /\ phase' = "UnicodeDecodeError" /\ UNCHANGED <<disk, config>>
         [] disk.kind = "malformed" ->
              /\ config' = Defaults /\ phase' = "init" /\ UNCHANGED disk
         [] disk.kind = "array" ->
              /\ config' = Defaults /\ phase' = "init" /\ UNCHANGED disk
         [] disk.kind = "object" ->
              /\ config' = IF model_validate(disk.data) THEN Applied(disk.data)
                           ELSE Defaults
              /\ phase' = "init" /\ UNCHANGED disk
    /\ UNCHANGED <<file, instances, alive_cache, tasks, save_task, cyc, subs, fleet>>
    /\ UNCHANGED <<hist, ext, proxy, resolved, health, track>>

\* InstanceManager._get_target_addresses on the loaded configuration
ResolveTargets ==
    /\ phase = "init"
    /\ resolved = <<>>
    /\ resolved' = _get_target_addresses(config)
    /\ UNCHANGED <<prog, hist, ext, proxy, disk, health, track>>

ConfNext == LoadConfig \/ ResolveTargets

ConfSpec == ConfInit /\ [][ConfNext]_vars

(* ---------------------- one subscriber, scheduled ---------------------- *)
\* the scan loop and one SSE generator. The event loop runs every generator
\* that can take a step, the client takes what is yielded, and time passes.
ConnectFirst == SubConnect(1)

SubLiveNext ==
    \/ Startup
    \/ LoopCycleStart(FALSE)
    \/ Probe
    \/ Finish
    \/ Resume
    \/ SaveWake
    \/ SaveWritten
    \/ SaveCancelled
    \/ ConnectFirst
    \/ Woken
    \/ Timeout
    \/ Sent
    \/ Tick

GeneratorRuns == Woken \/ Timeout \/ Sent

SubLiveSpec ==
    InitSub /\ [][SubLiveNext]_vars /\ WF_vars(GeneratorRuns) /\ WF_vars(Tick)

(* ------------------------------- proxy --------------------------------- *)
\* strings are sequences of characters
Digits == <<"0", "1", "2", "3", "4", "5", "6", "7", "8", "9">>
IsDigit(ch) == \E d \in 1..10 : Digits[d] = ch
DigitVal(ch) == (CHOOSE d \in 1..10 : Digits[d] = ch) - 1

RECURSIVE Decimal(_)
\* str(n) of a natural number
Decimal(n) ==
    IF n < 10 THEN <<Digits[n + 1]>>
    ELSE Decimal(n \div 10) \o <<Digits[(n % 10) + 1]>>

\* f'{host}:{port}' as the characters that a request names an instance by
AddrText(addr) == <<addr[1]>> \o <<":">> \o Decimal(addr[2])

RECURSIVE Split(_)
\* s.split(':')
Split(s) ==
    IF s = <<>> THEN << <<>> >>
    ELSE LET rest == Split(Tail(s))
         IN  IF Head(s) = ":" THEN << <<>> >> \o rest
             ELSE << <<Head(s)>> \o rest[1] >> \o Tail(rest)

RECURSIVE DigitsValue(_)
DigitsValue(s) ==
    IF s = <<>> THEN 0
    ELSE DigitsValue(SubSeq(s, 1, Len(s) - 1)) * 10 + DigitVal(s[Len(s)])

\* int(s): an optional sign and decimal digits; anything else is a ValueError
ParseInt(s) ==
    LET signed == s # <<>> /\ s[1] \in {"+", "-"}
        digits == IF signed THEN Tail(s) ELSE s
    IN  IF digits # <<>> /\ \A i \in 1..Len(digits) : IsDigit(digits[i])
        THEN [ok |-> TRUE,
              val |-> IF signed /\ s[1] = "-" THEN 0 - DigitsValue(digits)
                      ELSE DigitsValue(digits)]
        ELSE [ok |-> FALSE, val |-> 0]

\* InstanceManager.check_instance_online on the store
InstanceOnline(list, text) ==
    \E i \in 1..Len(list) : AddrText(list[i].addr) = text /\ list[i].status = "Online"

\* a check that asks only whether the store has a record of the address
InstanceKnown(list, text) ==
    \E i \in 1..Len(list) : AddrText(list[i].addr) = text

\* values of a JSON body: strings and numbers
Str(chars) == [type |-> "str", v |-> chars]
Num(n) == [type |-> "int", v |-> Decimal(n)]

\* the address of the request is of the form host:port with a valid port
AddrFormatOk(chars) ==
    /\ Len(Split(chars)) = 2
    /\ ParseInt(Split(chars)[2]).ok
    /\ 1 <= ParseInt(Split(chars)[2]).val
    /\ ParseInt(Split(chars)[2]).val <= 65535

\* a proxy that forwards to every instance the store has a record of
ValidateKnown(body, list) ==
    IF body.kind # "dict" \/ DOMAIN body.fields = {} THEN 400
    ELSE IF "astra_addr" \notin DOMAIN body.fields THEN 400
    ELSE LET addr == body.fields.astra_addr
         IN  IF addr.type # "str" \/ addr.v = <<>> THEN 400
             ELSE IF ~AddrFormatOk(addr.v) THEN 400
             ELSE IF ~InstanceKnown(list, addr.v) THEN 404
             ELSE 0

\* _validate_proxy_request_data: the status of the error answer, 0 for none
_validate_proxy_request_data(body, list) ==
    IF body.kind # "dict" \/ DOMAIN body.fields = {} THEN 400
    ELSE IF "astra_addr" \notin DOMAIN body.fields THEN 400
    ELSE LET addr == body.fields.astra_addr
         IN  IF addr.type # "str" \/ addr.v = <<>> THEN 400
             ELSE IF ~AddrFormatOk(addr.v) THEN 400
             ELSE IF ~InstanceOnline(list, addr.v) THEN 404
             ELSE 0

\* {k: v for k, v in request_data.items() if k != 'astra_addr'}
Payload(fields) == [k \in DOMAIN fields \ {"astra_addr"} |-> fields[k]]

\* the addresses a request can name
RequestAddrs ==
    {Str(<<>>), Num(5)}
    \cup {Str(c) : c \in {<<"h", ":", "1">>, <<"h", ":", "2">>, <<"h", ":", "0">>,
                        <<"h", ":", "-", "1">>, <<"h", ":", "x">>, <<"h", ":">>,
                        <<"h">>, <<":", "1">>, <<"h", ":", "1", ":", "2">>,
                        <<"h", ":", "0", "1">>,
                        <<"h", ":", "6", "5", "5", "3", "5">>,
                        <<"h", ":", "6", "5", "5", "3", "6">>}}

\* what request.get_json() can give: nothing, a JSON value that is no object,
\* an object with or without the address and with or without other fields
RequestBodies ==
    [kind : {"none", "list"}]
    \cup {[kind |-> "dict", fields |-> f] :
            f \in {<<>>, [cmd |-> Str(<<"x">>)]}
                  \cup {[astra_addr |-> a] : a \in RequestAddrs}
                  \cup {[astra_addr |-> a, cmd |-> Str(<<"x">>)] : a \in RequestAddrs}}

\* what the POST to the instance can end with
UpstreamOutcomes ==
    [exc : {"TimeoutException", "ConnectError", "ReadError"}]
    \cup [status_code : {200, 201, 404, 500}, json : BOOLEAN]

\* _handle_proxy_http_request: the answer to the client
ProxyReply(outcome) ==
    IF "exc" \in DOMAIN outcome
    THEN CASE outcome.exc = "TimeoutException" -> [status |-> 504, data |-> "error"]
           [] outcome.exc = "ConnectError" -> [status |-> 503, data |-> "error"]
           [] OTHER -> [status |-> 500, data |-> "error"]
    ELSE [status |-> outcome.status_code,
          data |-> IF outcome.json THEN "json" ELSE "error"]

\* proxy_request_helper up to the POST: validation, then the request upstream
ProxyRequest(body) ==
    /\ phase = "running"
    /\ shut.pc = "run"
    /\ proxy.pc = "idle"
    /\ LET status == _validate_proxy_request_data(body, instances)
       IN  proxy' = IF status # 0
                    THEN [pc |-> "done", body |-> body, post |-> [made |-> FALSE],
                          upstream |-> [exc |-> "None"],
                          reply |-> [status |-> status, data |-> "error"]]
                    ELSE [pc |-> "upstream", body |-> body,
                          post |-> [made |-> TRUE, addr |-> body.fields.astra_addr.v,
                                    payload |-> Payload(body.fields)],
                          upstream |-> [exc |-> "None"],
                          reply |-> [status |-> 0]]
    /\ fired' = FALSE
    /\ UNCHANGED <<prog, burst, last_results, scen, ext, disk, resolved, health, track>>

\* a proxy that records in the store that the instance did not answer
ProxyMarksOffline(outcome) ==
    /\ proxy.pc = "upstream"
    /\ proxy' = [proxy EXCEPT !.pc = "done", !.upstream = outcome,
                              !.reply = ProxyReply(outcome)]
    /\ instances' = IF "exc" \in DOMAIN outcome
                    THEN [i \in DOMAIN instances |->
                            IF AddrText(instances[i].addr) = proxy.post.addr
                            THEN [instances[i] EXCEPT !.status = "Offline"]
                            ELSE instances[i]]
                    ELSE instances
    /\ fired' = FALSE
    /\ UNCHANGED <<config, file, alive_cache, tasks, save_task, cyc, subs, phase, fleet>>
    /\ UNCHANGED <<burst, last_results, scen, ext, disk, resolved, health, track>>

\* the POST ends: _handle_proxy_http_request returns the answer
ProxyUpstream(outcome) ==
    /\ proxy.pc = "upstream"
    /\ proxy' = [proxy EXCEPT !.pc = "done", !.upstream = outcome,
                              !.reply = ProxyReply(outcome)]
    /\ fired' = FALSE
    /\ UNCHANGED <<prog, burst, last_results, scen, ext, disk, resolved, health, track>>

\* the answer has gone to the client
ProxyDone ==
    /\ proxy.pc = "done"
    /\ proxy' = NoProxy
    /\ fired' = FALSE
    /\ UNCHANGED <<prog, burst, last_results, scen, ext, disk, resolved, health, track>>

Request == \E body \in RequestBodies : ProxyRequest(body)
Upstream == \E outcome \in UpstreamOutcomes : ProxyUpstream(outcome)

ProxyNext ==
    \/ Startup
    \/ LoopCycleStart(FALSE)
    \/ Probe
    \/ Finish
    \/ Resume
    \/ SaveWake
    \/ SaveWritten
    \/ SaveCancelled
    \/ Request
    \/ Upstream
    \/ ProxyDone
    \/ Tick

ProxySpec == InitOne /\ [][ProxyNext]_vars

(* ------------------------- disk write errors --------------------------- *)
\* the file system: writable, or open(mode='w') fails, or the file is opened
\* (and so truncated) and the write fails
IoStates == {"ok", "no_open", "no_write"}

\* the snapshot a reader finds in the file after a write that failed
FileAfterError(f, state) == IF state = "no_write" THEN <<>> ELSE f

\* the file system changes under the program
DiskTurns(state) ==
    /\ io # state
    /\ io' = state
    /\ fired' = FALSE
    /\ UNCHANGED <<prog, burst, last_results, scen, ext>>
    /\ UNCHANGED <<proxy, disk, resolved, health, update_event, sse_tasks>>

\* save_config raises OSError in the debounced task: save_config logs and
\* re-raises it, _save_task_coro catches and logs it, and the task ends
SaveTaskFails(t) ==
    /\ tasks[t].state = "writing"
    /\ ~tasks[t].cancel
    /\ io # "ok"
    /\ file' = FileAfterError(file, io)
    /\ tasks' = Collect([tasks EXCEPT ![t].state = "done"], save_task, cyc)
    /\ fired' = FALSE
    /\ UNCHANGED <<config, instances, alive_cache, save_task, cyc, subs, phase, fleet>>
    /\ UNCHANGED <<burst, last_results, scen>>
    /\ UNCHANGED <<shut, heap, refs, access, aux>>

\* a shutdown that logs the error of its save and goes on
ForcedErrorSwallowed ==
    /\ shut.pc = "write"
    /\ io # "ok"
    /\ file' = FileAfterError(file, io)
    /\ shut' = [shut EXCEPT !.pc = "closed"]
    /\ fired' = FALSE
    /\ UNCHANGED <<config, instances, alive_cache, tasks, save_task, cyc, subs,
                   phase, fleet>>
    /\ UNCHANGED <<burst, last_results, scen>>
    /\ UNCHANGED <<heap, refs, access, aux>>

\* save_config raises OSError in _update_and_save_config_cache: nothing
\* catches it, shutdown ends with the exception before the HTTP clients are
\* closed
ShutdownWriteFails ==
    /\ shut.pc = "write"
    /\ io # "ok"
    /\ file' = FileAfterError(file, io)
    /\ shut' = [shut EXCEPT !.pc = "raised"]
    /\ fired' = FALSE
    /\ UNCHANGED <<config, instances, alive_cache, tasks, save_task, cyc, subs,
                   phase, fleet>>
    /\ UNCHANGED <<burst, last_results, scen>>
    /\ UNCHANGED <<heap, refs, access, aux>>

DiskChanges == \E state \in IoStates : DiskTurns(state)
SaveFails == \E t \in TaskIds : SaveTaskFails(t)

\* the scan loop, the debounced save and the shutdown on a file system that
\* can refuse the write
WriteErrNext ==
    \/ Startup
    \/ LoopCycleStart(FALSE)
    \/ Probe
    \/ Finish
    \/ Resume
    \/ SaveWake
    \/ SaveWritten
    \/ SaveFails
    \/ SaveCancelled
    \/ DiskChanges
    \/ Tick
    \/ ShutdownBegin
    \/ ShutdownLoopTimeout
    \/ ShutdownCancelSse
    \/ ShutdownCancelSave
    \/ ShutdownSaveDone
    \/ ShutdownCopy
    \/ ShutdownWrite
    \/ ShutdownWriteFails

WriteErrSpec == InitOne /\ [][WriteErrNext]_vars

(* ------------------- a hand-edited persisted snapshot ------------------ *)
\* cached_instances is List[Dict[str, Any]]: the file can hold two records of
\* one address and a status the engine never writes
SnapshotOdd ==
    <<Inst(AddrOf(instance_host, 1), "2.0", "Pending"),
      Inst(AddrOf(instance_host, 1), "2.1", "Online")>>

\* port sweep, one address listed twice, two addresses; nothing restored or
\* the hand-edited snapshot
InitStore ==
    \E servers \in {<<>>, <<Server(1), Server(1)>>, <<Server(1), Server(2)>>} :
        \E snap \in {<<>>, SnapshotOdd} :
            InitAs(servers, MaxPort, snap, 0, {"None", "2.0"})

StoreSpec == InitStore /\ [][SeqNext]_vars

(* ---------------------- tracked subscriber tasks ----------------------- *)
Ends == \E s \in Subs : SubEnds(s)

\* the loop, two subscribers that come and go, and the shutdown; the store
\* changes once under InitSse, so no cycle finds a save task to cancel
SseNext ==
    \/ Startup
    \/ LoopCycleStart(FALSE)
    \/ Probe
    \/ Finish
    \/ SaveWake
    \/ SaveWritten
    \/ SaveCancelled
    \/ Connect
    \/ Woken
    \/ Timeout
    \/ Sent
    \/ Ends
    \/ Tick
    \/ ShutdownBegin
    \/ ShutdownLoopTimeout
    \/ ShutdownCancelSse
    \/ ShutdownCancelSave
    \/ ShutdownSaveDone
    \/ ShutdownCopy
    \/ ShutdownWrite

\* the instance answers every probe
InitSse == InitAs(<<Server(1)>>, MaxPort, <<>>, 0, {"2.0"})

SseSpec == InitSse /\ [][SseNext]_vars

(* ------------------- every component beside the store ------------------ *)
\* the proxy request beside the cycles: a command to h:1, forwarded while
\* the store has h:1 Online and refused otherwise
FrameBodies ==
    {[kind |-> "dict", fields |-> [astra_addr |-> Str(<<"h", ":", "1">>),
                                   cmd |-> Str(<<"x">>)]]}

FrameOutcomes ==
    {[exc |-> "ConnectError"], [status_code |-> 200, json |-> TRUE]}

FrameRequest == \E body \in FrameBodies : ProxyRequest(body)
FrameUpstream == \E outcome \in FrameOutcomes : ProxyUpstream(outcome)
FirstEnds == SubEnds(1)

\* scheduled and manual cycles (one at a time), the save tasks, a subscriber,
\* proxy requests and the shutdown
FrameNext ==
    \/ Startup
    \/ LoopCycleStart(FALSE)
    \/ ManualStart(FALSE)
    \/ Probe
    \/ Finish
    \/ Resume
    \/ SaveWake
    \/ SaveWritten
    \/ SaveCancelled
    \/ ConnectFirst
    \/ Woken
    \/ Timeout
    \/ Sent
    \/ FirstEnds
    \/ FrameRequest
    \/ FrameUpstream
    \/ ProxyDone
    \/ Tick
    \/ ShutdownBegin
    \/ ShutdownLoopTimeout
    \/ ShutdownCancelSse
    \/ ShutdownCancelSave
    \/ ShutdownSaveDone
    \/ ShutdownCopy
    \/ ShutdownWrite

\* a persisted snapshot that startup restores
InitFrame == InitAs(<<Server(1)>>, MaxPort, SnapshotOnline, 0, {"None", "2.0"})

FrameSpec == InitFrame /\ [][FrameNext]_vars

(* ----------------------------- properties ------------------------------ *)
Addrs == {AddrOf(instance_host, p) : p \in 1..(MaxPort + MaxServers + 1)}
RecSet(list) == {list[i] : i \in 1..Len(list)}
Count(list, a) == Cardinality({i \in 1..Len(list) : list[i].addr = a})

\* the step in which the execution c replaces the State Store
FinishStep(c) == cyc[c].pc = "probing" /\ cyc'[c].pc # "probing"
\* the step in which the execution c returns
ReturnStep(c) == InFlight(c) /\ cyc'[c].pc \notin {"probing", "cancelwait"}
Quiet == \A c \in Cycles : ~InFlight(c)

TargetAddrs(c) == {AddrOf(cyc[c].targets[i][1], cyc[c].targets[i][2]) :
                     i \in 1..Len(cyc[c].targets)}
\* the probe that decides the record of address a: the last target with it
Deciding(c, a) == CHOOSE i \in 1..Len(cyc[c].targets) :
    /\ AddrOf(cyc[c].targets[i][1], cyc[c].targets[i][2]) = a
    /\ \A j \in 1..Len(cyc[c].targets) :
          AddrOf(cyc[c].targets[j][1], cyc[c].targets[j][2]) = a => j <= i
Outcome(c, a) == cyc[c].results[Deciding(c, a)]
Explicit == config.servers # <<>>
ConfiguredAddrs == {AddrOf(config.servers[i].address, config.servers[i].port) :
                      i \in 1..Len(config.servers)}

\* C1: a completed cycle leaves exactly one record per target that answered
\* (Online) or that failed while known before or explicitly configured
\* (Offline), no record for a failed unknown autoscan target and no record for
\* an address that is not a target.
C1_Consistency ==
    [][\A c \in Cycles : FinishStep(c) =>
        \A a \in Addrs :
            IF a \in TargetAddrs(c) /\ Outcome(c, a) # "None"
            THEN Count(instances', a) = 1 /\ Get(instances', a).status = "Online"
            ELSE IF a \in TargetAddrs(c) /\ (HasKey(instances, a) \/ Explicit)
            THEN Count(instances', a) = 1 /\ Get(instances', a).status = "Offline"
            ELSE ~HasKey(instances', a)]_vars

\* Scenario B: the sweep found port 1, port 2 never answered and is absent
C1_Witness ==
    /\ ~Explicit /\ Quiet
    /\ last_results = <<"2.0", "None">>
    /\ instances = <<Inst(AddrOf(instance_host, 1), "2.0", "Online")>>

\* C2: with an explicit server list every configured address is in the State
\* Store after every cycle, Online or Offline, is never removed, and is
\* {unknown, Offline} as long as it has never answered.
C2_ExplicitPermanent ==
    [][/\ \A c \in Cycles : FinishStep(c) =>
            \A a \in ConfiguredAddrs :
                /\ HasKey(instances', a)
                /\ Get(instances', a).status \in {"Online", "Offline"}
                /\ (/\ \A i \in 1..Len(cyc[c].targets) : cyc[c].results[i] = "None"
                    /\ HasKey(instances, a) => Get(instances, a) = Inst(a, "unknown", "Offline"))
                   => Get(instances', a) = Inst(a, "unknown", "Offline")
       /\ \A a \in ConfiguredAddrs :
            phase = "running" /\ HasKey(instances, a) => HasKey(instances', a)]_vars

\* Scenario A: the configured server has not answered, the cycle changed nothing
C2_Witness ==
    /\ config.servers = <<Server(1)>> /\ Quiet
    /\ last_results = <<"None">>
    /\ instances = <<Inst(AddrOf(instance_host, 1), "unknown", "Offline")>>
    /\ config.cached_instances = instances /\ config.cache_age > 0
    /\ cyc["loop"].pc = "sleeping" /\ cyc["loop"].left = check_interval

C4_StickyVersion ==
    [][\A c \in Cycles : FinishStep(c) =>
        \A a \in Addrs :
            (/\ HasKey(instances, a) /\ HasKey(instances', a)
             /\ Get(instances', a).status = "Offline")
            => /\ Get(instances', a).version = Get(instances, a).version
               /\ HasKey(config'.cached_instances, a)
               /\ Get(config'.cached_instances, a) = Get(instances', a)]_vars

\* the server answered 2.1, then went Offline and stayed so for another cycle
C4_Witness ==
    /\ config.servers = <<Server(1)>> /\ Quiet /\ file = <<>>
    /\ last_results = <<"None">>
    /\ instances = <<Inst(AddrOf(instance_host, 1), "2.1", "Offline")>>
    /\ config.cached_instances = instances /\ config.cache_age > 0
    /\ cyc["loop"].pc = "sleeping" /\ cyc["loop"].left = check_interval

NewSaveTask == /\ save_task' # 0
               /\ tasks'[save_task'] = [state |-> "sleeping",
                                        left |-> debounce_save_delay, cancel |-> FALSE]

\* C5: a cycle updates the config snapshot and its time stamp, schedules a
\* debounced save and fires the Notifier exactly when the set of records in
\* the State Store changed; a cycle with the probe results of the cycle before
\* does none of these.
C5_ChangeDetection ==
    [][/\ \A c \in Cycles : FinishStep(c) =>
            IF RecSet(instances') # RecSet(instances)
            THEN /\ config'.cached_instances = instances' /\ config'.cache_age = 0
                 /\ \/ NewSaveTask /\ fired' /\ ReturnStep(c)
                    \/ /\ cyc'[c].pc = "cancelwait" /\ tasks'[save_task].cancel
                       /\ ~fired' /\ save_task' = save_task
            ELSE /\ UNCHANGED <<config, tasks, save_task, subs>>
                 /\ ~fired' /\ ReturnStep(c)
       /\ \A c \in Cycles : cyc[c].pc = "cancelwait" /\ ReturnStep(c) =>
            NewSaveTask /\ fired'
       /\ fired' => \E c \in Cycles : ReturnStep(c)
       /\ \A c \in Cycles : FinishStep(c) /\ cyc[c].results = last_results =>
            UNCHANGED <<config, tasks, save_task, subs>> /\ ~fired']_vars

\* the store was loaded in another order than the scan order: the cycle put it
\* in scan order and detected no change
C5_Witness ==
    /\ Quiet /\ ~fired /\ phase = "running"
    /\ last_results = <<"None", "None">>
    /\ config.cached_instances = SnapshotReversed
    /\ instances = <<SnapshotReversed[2], SnapshotReversed[1]>>
    /\ save_task = 0

\* C6 as stated: in Scenario C the final record is {2.1, Online} and exactly
\* two notifications are fired over the three cycles.
C6_TwoNotifications ==
    scen.stage = 3 /\ Quiet =>
        /\ Get(instances, AddrOf(instance_host, 1)) =
              Inst(AddrOf(instance_host, 1), "2.1", "Online")
        /\ scen.first + scen.later = 2

\* C6 amended: the final record is {2.1, Online}; cycles 2 and 3 fire one
\* notification each; cycle 1 fires one more unless the store already held
\* the records it produced.
C6_ScenarioC ==
    scen.stage = 3 /\ Quiet =>
        /\ Get(instances, AddrOf(instance_host, 1)) =
              Inst(AddrOf(instance_host, 1), "2.1", "Online")
        /\ scen.later = 2
        /\ scen.first = 0 => scen.held
        /\ ~scen.held => scen.first = 1

C6_Witness == scen.stage = 3 /\ Quiet /\ scen.first = 0

\* the step in which the generator s reads the State Store after its wait
ReadStep(s) ==
    \/ subs[s].pc = "woken" /\ subs'[s].pc # "woken"
    \/ subs[s].pc = "wait" /\ subs'[s].pc = "push"
    \/ subs[s].pc = "wait" /\ subs'[s].pc = "wait" /\ subs'[s].left > subs[s].left
SameButMissed(s) == [subs'[s] EXCEPT !.missed = subs[s].missed] = subs[s]

\* C7: a fire wakes every subscriber that is waiting, once, and no other; a
\* subscriber that waits leaves its wait only by a fire or by its timeout.
C7_WakeAllOnce ==
    [][/\ fired' => \A s \in Subs :
            IF subs[s].pc = "wait"
            THEN subs'[s] = [subs[s] EXCEPT !.pc = "woken", !.left = 0]
            ELSE SameButMissed(s)
       /\ \A s \in Subs :
            /\ subs[s].pc = "wait" /\ subs'[s].pc = "woken" => fired'
            /\ subs[s].pc = "wait" /\ ReadStep(s) => subs[s].left = 0
            /\ subs[s].pc = "woken" /\ ~ReadStep(s) => SameButMissed(s)
            /\ subs[s].pc = "woken" /\ ReadStep(s) => subs'[s].pc \in {"push", "wait"}]_vars

\* one fire has woken both subscribers
C7_Witness == fired /\ \A s \in Subs : subs[s].pc = "woken"

\* C8 as stated: fires that find a subscriber not waiting are followed by one
\* wakeup after which the subscriber pushes the latest snapshot.
C8_PushesLatest ==
    [][\A s \in Subs : subs[s].missed /\ ReadStep(s) =>
            subs'[s].pc = "push" /\ subs'[s].data = instances]_vars

\* C8 amended: fires that find a subscriber not waiting queue no wakeup; at
\* its next wakeup the subscriber reads the store once and pushes the snapshot
\* it read, unless that equals its last payload: then it pushes nothing and
\* waits again.
C8_Coalescing ==
    [][\A s \in Subs :
        /\ fired' /\ subs[s].pc \in {"woken", "push"} =>
              SameButMissed(s) /\ subs'[s].missed
        /\ ReadStep(s) =>
              /\ ~subs'[s].missed
              /\ IF subs[s].last_sent = [some |-> TRUE, val |-> instances]
                 THEN /\ subs'[s].pc = "wait" /\ subs'[s].left = sse_wait_timeout
                      /\ subs'[s].last_sent = subs[s].last_sent
                 ELSE /\ subs'[s].pc = "push" /\ subs'[s].data = instances
                      /\ subs'[s].last_sent = subs[s].last_sent
        /\ subs[s].pc = "push" /\ subs'[s].pc # "push" =>
              /\ subs'[s].pc = "wait" /\ subs'[s].left = sse_wait_timeout
              /\ subs'[s].last_sent = [some |-> TRUE, val |-> subs[s].data]
              /\ subs'[s].missed = subs[s].missed
        /\ subs[s].pc = "push" /\ subs'[s].pc = "push" => SameButMissed(s)]_vars

\* the subscriber sent the empty list and next read {2.0, Offline}: the store
\* changed at least twice in between and the subscriber read it once
C8_Witness ==
    \E s \in Subs :
        /\ subs[s].pc = "push" /\ ~subs[s].missed
        /\ subs[s].last_sent = [some |-> TRUE, val |-> <<>>]
        /\ subs[s].data = <<Inst(AddrOf(instance_host, 1), "2.0", "Offline")>>
        /\ instances = subs[s].data

\* the step in which the save task t finishes its write
WriteStep(t) == /\ tasks[t].state = "writing" /\ ~tasks[t].cancel
                /\ tasks'[t].state # "writing"
PendingSaves == {t \in TaskIds : tasks[t].state \in {"sleeping", "writing"}}

C10_SingleSaveTask == Cardinality(PendingSaves) <= 1

\* the step of load_initial_cache
StartupStep == phase = "init" /\ phase' = "running"

\* C12: at startup the persisted snapshot becomes the State Store only when
\* it is younger than cache_ttl; a snapshot that is exactly cache_ttl old or
\* older, or absent, leaves the store empty, and the first cycle after such a
\* start holds no record that comes from the snapshot: every record is Online
\* with the probed version or a configured server that never answered.
C12_StaleCacheDiscarded ==
    [][/\ StartupStep =>
            instances' = IF /\ config.cached_instances # <<>>
                            /\ config.cache_age < cache_ttl
                         THEN config.cached_instances
                         ELSE <<>>
       /\ \A c \in Cycles :
            (FinishStep(c) /\ last_results = <<>> /\ instances = <<>>) =>
               \A i \in 1..Len(instances') :
                  \/ /\ instances'[i].status = "Online"
                     /\ instances'[i].version =
                           VersionOf(cyc[c].results[Deciding(c, instances'[i].addr)])
                  \/ /\ instances'[i] = Inst(instances'[i].addr, "unknown", "Offline")
                     /\ instances'[i].addr \in ConfiguredAddrs]_vars

\* a snapshot exactly cache_ttl old was on disk at startup, the first cycle
\* found nobody and none of the snapshot's records is in the store
C12_Witness ==
    /\ phase = "running" /\ Quiet
    /\ config.cached_instances = SnapshotReversed
    /\ config.cache_age >= cache_ttl
    /\ last_results = <<"None", "None">>
    /\ instances = <<>>

\* C15: the State Store is replaced only at startup and by a cycle whose
\* probes are all resolved, and then by the reconciled list of that whole
\* cycle; while probes are outstanding the store is the one the cycle started
\* from, whatever the probes already returned.
C15_ReplaceAfterAllProbes ==
    [][/\ instances' # instances =>
            \/ StartupStep
            \/ \E c \in Cycles :
                  /\ FinishStep(c)
                  /\ \A i \in 1..Len(cyc[c].results) : cyc[c].results[i] # "inflight"
                  /\ instances' = Reconcile(cyc[c].targets, cyc[c].results, cyc[c].old,
                                            Len(cyc[c].targets))
       /\ \A c \in Cycles :
            cyc'[c].pc = "probing" => instances' = cyc'[c].old]_vars

\* one probe has answered with a new version, the other is outstanding, and
\* the store still holds no record
C15_Witness ==
    /\ cyc["loop"].pc = "probing"
    /\ Len(cyc["loop"].results) = 2
    /\ cyc["loop"].results[1] = "2.0"
    /\ cyc["loop"].results[2] = "inflight"
    /\ instances = <<>>

\* what the engine shows of its lists: the store, the config snapshot, the
\* pre-cycle map of each running cycle and the answer of check_instance_online
EngineView ==
    <<View(heap, refs.store), View(heap, refs.cached),
      [c \in Cycles |-> View(heap, refs.old[c])],
      [p \in Ports |-> check_instance_online(heap, refs, AddrOf(instance_host, p))]>>

\* C13 (original statement, refuted): whatever a caller does to the list it
\* got from get_instances, to the list itself or to a field of one of its
\* records, the State Store, the config snapshot, the pre-cycle map of a
\* running cycle and the answer of check_instance_online stay as they were.
C13_IndependentSnapshots ==
    [][\A k \in Callers :
          (ObjMutateList(k) \/ \E i \in 1..MaxPort : ObjMutateField(k, i)) =>
             EngineView' = EngineView]_vars

AsFailures(results) ==
    [i \in 1..Len(results) |-> IF results[i] = "inflight" THEN "None" ELSE results[i]]

\* C16 (original statement, refuted): a probe that raises is the failure of
\* its own target only: when a cycle ends, no more than the raising probe is
\* unfinished, and the store holds the reconciliation of all the results, the
\* raising target counted as not answering.
C16_ProbeFailureIsolated ==
    [][\A c \in Cycles :
          (FinishStep(c) /\ ~ReconcileFails(cyc[c].results)) =>
             /\ Cardinality({i \in 1..Len(cyc[c].results) :
                               cyc[c].results[i] = "inflight"}) <= 1
             /\ instances' = Reconcile(cyc[c].targets, AsFailures(cyc[c].results),
                                       cyc[c].old, Len(cyc[c].targets))]_vars

\* the step in which perform_update raises
FailStep(c) ==
    /\ FinishStep(c)
    /\ \E i \in 1..Len(cyc[c].results) : cyc[c].results[i] \in {"inflight", "[]"}
\* the last cycle that ended has raised
LastFailed == \E i \in 1..Len(last_results) : last_results[i] \in {"Raise", "[]"}

\* C17: a cycle that raises leaves the State Store, the config snapshot, the
\* file, the save tasks and their handle, and the subscribers as they were
\* and fires no notification; the loop then sleeps check_interval, and the
\* next cycle starts.
C17_FailedCycleNoOp ==
    /\ [][\A c \in Cycles : FailStep(c) =>
             /\ UNCHANGED <<instances, config, file, tasks, save_task, subs>>
             /\ ~fired'
             /\ c = "loop" => /\ cyc'[c].pc = "sleeping"
                              /\ cyc'[c].left = check_interval]_vars
    /\ (cyc["loop"].pc = "sleeping" /\ LastFailed) ~> (cyc["loop"].pc = "probing")

\* after a change whose save is still pending, a cycle has raised on a health
\* answer that is not an object; the loop sleeps
C17_Witness ==
    /\ cyc["loop"].pc = "sleeping" /\ cyc["loop"].left = check_interval
    /\ \E i \in 1..Len(last_results) : last_results[i] = "[]"
    /\ instances # <<>> /\ config.cached_instances = instances
    /\ PendingSaves # {}

\* C18: the loop starts its first cycle as soon as it runs; whenever
\* perform_update returns or raises, the loop sleeps check_interval, and a
\* cycle starts only when that sleep is over, and does start; the loop never
\* stops by itself.
C18_LoopForever ==
    /\ [][/\ StartupStep => cyc'["loop"].pc = "ready"
          /\ ReturnStep("loop") =>
                cyc'["loop"].pc = "sleeping" /\ cyc'["loop"].left = check_interval
          /\ (cyc["loop"].pc # "probing" /\ cyc'["loop"].pc = "probing") =>
                \/ cyc["loop"].pc = "ready"
                \/ cyc["loop"].pc = "sleeping" /\ cyc["loop"].left = 0
          /\ (cyc["loop"].pc = "sleeping" /\ cyc'["loop"].pc = "sleeping") =>
                cyc'["loop"].left \in {cyc["loop"].left, cyc["loop"].left - 1}
          /\ cyc'["loop"].pc # "stopped"]_vars
    /\ (cyc["loop"].pc = "ready") ~> (cyc["loop"].pc = "probing")
    /\ (cyc["loop"].pc = "sleeping") ~> (cyc["loop"].pc = "probing")

\* a cycle has started after one in which a probe raised
C18_Witness ==
    /\ cyc["loop"].pc = "probing"
    /\ \E i \in 1..Len(last_results) : last_results[i] = "Raise"
    /\ instances # <<>>

\* C19 (original statement, refuted): once the loop task has been cancelled,
\* in its sleep or in a cycle in flight, the loop is Stopped: the cycle in
\* flight is not completed, the interval is not slept out and no cycle
\* starts.
C19_CancelStopsLoop == shut.pc # "run" => cyc["loop"].pc = "stopped"

\* C20 (original statement, refuted): a shutdown that has started always gets
\* to its end, the final save done and the HTTP clients closed.
C20_ShutdownTerminates == (shut.pc # "run") ~> (shut.pc = "closed")

\* the steps of the shutdown that cancel the pending save and write the file
ShutdownWriteStep == shut.pc = "write" /\ shut'.pc = "closed"
SaveCancelStep == shut.pc = "save" /\ shut'.pc # "save"

\* C11 (original statement; it holds while cycles do not overlap and is
\* refuted by a save task that overlapping cycles left outside the handle):
\* shutdown cancels every pending save task, and a cancelled task never
\* writes; then the store is copied into the config snapshot
\* with a fresh timestamp and written once; from then on the file holds the
\* State Store as it is at shutdown, no save task is pending and the file is
\* not written again.
C11_ShutdownPersistence ==
    /\ [][/\ SaveCancelStep =>
                \A t \in TaskIds :
                   tasks[t].state \in {"sleeping", "writing"} => tasks'[t].cancel
          /\ \A t \in TaskIds : WriteStep(t) => ~tasks[t].cancel /\ shut.pc # "closed"
          /\ (shut.pc = "final" /\ shut'.pc = "write") =>
                /\ config'.cached_instances = instances
                /\ config'.cache_age = 0
          /\ ShutdownWriteStep =>
                /\ file' = instances
                /\ PendingSaves = {}
          /\ shut.pc = "closed" => file' = file /\ instances' = instances]_vars
    /\ [](shut.pc = "closed" => file = instances /\ PendingSaves = {})

(* ------------------------ the probe and its cache ----------------------- *)
\* cycle c is entered: its probes take their first step
ProbeStartStep(c) == cyc[c].pc # "probing" /\ cyc'[c].pc = "probing"
\* the HTTP request of probe i of cycle c ends with an answer
ProbeEndStep(c, i) ==
    /\ cyc[c].pc = "probing" /\ cyc'[c].pc = "probing"
    /\ cyc[c].results[i] = "inflight" /\ cyc'[c].results[i] # "inflight"
FreshEntries(a) ==
    {k \in 1..Len(alive_cache) :
        alive_cache[k].addr = a /\ alive_cache[k].age < instance_alive_cache_ttl}

\* C21: a probe of (host, port) sends no request when the cache holds an entry
\* for it younger than the TTL and returns that entry, a success or a failure
\* alike; otherwise it sends one request, never a second one, and stores the
\* outcome, success or failure, with the time of completion.
C21_ProbeCache ==
    [][\A c \in Cycles :
        /\ ProbeStartStep(c) =>
              /\ alive_cache' = alive_cache
              /\ \A i \in 1..Len(cyc'[c].targets) :
                    LET t == cyc'[c].targets[i]
                        fresh == FreshEntries(<<t[1], t[2]>>)
                    IN  IF fresh # {}
                        THEN \E k \in fresh : cyc'[c].results[i] = alive_cache[k].result
                        ELSE cyc'[c].results[i] = "inflight"
        /\ \A i \in 1..Len(cyc[c].results) :
              /\ ProbeEndStep(c, i) =>
                    \E k \in 1..Len(alive_cache') :
                        alive_cache'[k] =
                            [addr |-> <<cyc[c].targets[i][1], cyc[c].targets[i][2]>>,
                             result |-> cyc'[c].results[i], age |-> 0]
              /\ cyc[c].pc = "probing" /\ cyc'[c].pc = "probing"
                 /\ cyc[c].results[i] # "inflight"
                 => cyc'[c].results[i] = cyc[c].results[i]]_vars

\* a manual refresh right after a cycle of the loop: the first port's entry has
\* aged out and is requested again, the failure cached for the second is returned
C21_Witness ==
    /\ cyc["manual"].pc = "probing" /\ cyc["loop"].pc = "sleeping"
    /\ Len(cyc["manual"].results) = 2
    /\ cyc["manual"].results[1] = "inflight"
    /\ cyc["manual"].results[2] = "None"
    /\ alive_cache = <<[addr |-> AddrOf(instance_host, 2), result |-> "None", age |-> 0]>>
    /\ last_results = <<"2.0", "None">>

\* the requests to address a that are in flight
CallsInFlight(a) ==
    {x \in Cycles \X (1..MaxPort + MaxServers) :
        /\ cyc[x[1]].pc = "probing"
        /\ x[2] <= Len(cyc[x[1]].results)
        /\ cyc[x[1]].results[x[2]] = "inflight"
        /\ <<cyc[x[1]].targets[x[2]][1], cyc[x[1]].targets[x[2]][2]>> = a}

\* C22: probes of one (host, port) that come close together, a manual refresh
\* over a cycle of the loop for one, cost one request per TTL window: no two
\* requests to one target are in flight together, and none is in flight while
\* the answer to an earlier one is younger than the TTL.
C22_OneCallPerWindow ==
    \A a \in Addrs :
        Cardinality(CallsInFlight(a)) + (IF FreshEntries(a) # {} THEN 1 ELSE 0) <= 1

(* --------------------------- health answers ----------------------------- *)
\* the version a body reports, "" when it reports none
Reported(body) ==
    CASE body = "{version: 2.0}" -> "2.0"
      [] body = "{version: 2.1}" -> "2.1"
      [] OTHER -> ""
IsResponse(answer) == "status_code" \in DOMAIN answer
\* the target is taken for unreachable: recorded Offline, or not recorded
Unreachable(data) ==
    /\ data.pc = "returned"
    /\ data.val = <<>> \/ data.val[1].status = "Offline"
RecordedOnline(data, version) ==
    /\ data.pc = "returned"
    /\ data.val = <<[version |-> version, status |-> "Online"]>>

ResolveStep == resolved = <<>> /\ resolved' # <<>>

\* C24: the targets are a function of the configuration alone. A server list
\* that is not empty gives its (address, port) pairs, in the order of the
\* list, tagged as explicit ('list'), whatever the port range is; an empty list
\* gives (scan host, p), tagged autoscan, for every p from start_port to
\* end_port, both included, in increasing order: end_port - start_port + 1 targets.
C24_TargetResolution ==
    [][ResolveStep =>
        IF Len(config.servers) > 0
        THEN /\ Len(resolved') = Len(config.servers)
             /\ \A i \in 1..Len(config.servers) :
                   resolved'[i] = <<config.servers[i].address, config.servers[i].port,
                                    "list">>
        ELSE /\ Len(resolved') = config.end_port - config.start_port + 1
             /\ resolved'[1][2] = config.start_port
             /\ resolved'[Len(resolved')][2] = config.end_port
             /\ \A i \in 1..Len(resolved') :
                   /\ resolved'[i][1] = config.instance_host
                   /\ resolved'[i][3] = "autoscan"
                   /\ i > 1 => resolved'[i][2] = resolved'[i - 1][2] + 1]_vars

\* a list of two servers, the higher port first, over a port range that
\* holds neither of them
C24_Witness ==
    /\ config.servers = <<[address |-> "localhost", port |-> 2],
                          [address |-> "10.0.0.1", port |-> 1]>>
    /\ config.start_port = 2 /\ config.end_port = 3
    /\ resolved = <<<<"localhost", 2, "list">>, <<"10.0.0.1", 1, "list">>>>

(* ------------------------ loading the configuration --------------------- *)
LoadStep == phase = "new" /\ phase' # "new"
GoodHosts == {"localhost", "127.0.0.1", "10.0.0.1", "astra.example.com"}
\* the content c read from the file breaks a rule of the configuration: a host
\* or a server address of a bad format, a port outside 1..65535, start_port
\* not below end_port, a timeout, interval, TTL or delay that is not positive
Invalid(c) ==
    \/ c.instance_host \notin GoodHosts
    \/ \E i \in 1..Len(c.servers) :
          \/ DOMAIN c.servers[i] # {"address", "port"}
          \/ c.servers[i].address \notin GoodHosts
          \/ c.servers[i].port \notin 1..65535
    \/ c.start_port \notin 1..65535 \/ c.end_port \notin 1..65535
    \/ c.start_port >= c.end_port
    \/ \E k \in PositiveFields : c[k] <= 0

\* C30: loading never applies an invalid file in part: the configuration is
\* either the whole validated content of the file or the whole built-in
\* defaults. A missing file is created with the defaults; a file that is no
\* well-formed JSON, or one that fails a validation, gives the defaults, and
\* loading does not raise.
C30_LoadAllOrNothing ==
    [][LoadStep =>
        /\ phase' = "init"
        /\ disk.kind = "missing" => disk' = DefaultFile /\ config' = Defaults
        /\ disk.kind # "missing" => disk' = disk
        /\ disk.kind \in {"undecodable", "malformed", "array"} => config' = Defaults
        /\ disk.kind = "object" =>
              LET c == [k \in DOMAIN Defaults |->
                          IF k \in DOMAIN disk.data THEN disk.data[k] ELSE Defaults[k]]
              IN  config' = IF Invalid(c) THEN Defaults ELSE c]_vars

(* ------------------------- what a subscriber pushes --------------------- *)
\* the payload of subscriber s has gone out
SentStep(s) == subs[s].pc = "push" /\ subs'[s].pc = "wait"

\* C25: a subscriber pushes a payload exactly when the snapshot it has just
\* read differs from the payload it sent last, and always at its first read;
\* it never pushes one payload twice in a row, woken by a fire or by its
\* timeout alike.
C25_PushOnDifference ==
    [][\A s \in Subs :
        /\ ReadStep(s) =>
              /\ subs'[s].pc = "push"
                   <=> (~subs[s].last_sent.some \/ subs[s].last_sent.val # instances)
              /\ subs'[s].pc = "push" => subs'[s].data = instances
              /\ subs'[s].last_sent = subs[s].last_sent
        /\ SentStep(s) =>
              /\ subs'[s].last_sent = [some |-> TRUE, val |-> subs[s].data]
              /\ subs[s].last_sent.some => subs[s].last_sent.val # subs[s].data
        /\ subs'[s].last_sent # subs[s].last_sent => SentStep(s)
        /\ subs[s].pc # "push" /\ subs'[s].pc = "push" => ReadStep(s)]_vars

\* two subscribers read the store after a change: the first has sent the old
\* snapshot and pushes, the second has sent this one already and waits on
C25_Witness ==
    /\ subs[1].pc = "push" /\ subs[1].last_sent.some
    /\ subs[1].data = instances /\ subs[1].last_sent.val # instances
    /\ subs[2].pc = "wait" /\ subs[2].last_sent = [some |-> TRUE, val |-> instances]
    /\ subs[2].left = sse_wait_timeout

(* ----------------------------- no lost update --------------------------- *)
\* every subscriber that is connected has sent the store as it is now
AllUpToDate ==
    \A s \in Subs :
        subs[s].pc = "off" \/ subs[s].last_sent = [some |-> TRUE, val |-> instances]

ManualAnswer ==
    IF FailStep("manual")
    THEN [status |-> 500, body |-> <<>>]
    ELSE [status |-> 200, body |-> instances']

\* C27: a manual refresh runs one whole cycle before it answers, and answers
\* with the snapshot of the store that this cycle has produced, never with one
\* from before the cycle's replace; a cycle that raises is answered with a
\* structured error of status 500.
C27_ManualReply ==
    [][ReturnStep("manual") =>
        IF FailStep("manual")
        THEN ManualAnswer.status = 500
        ELSE /\ ManualAnswer.status = 200
             /\ AllResolved(cyc["manual"].results)
             /\ ManualAnswer.body =
                   Reconcile(cyc["manual"].targets, cyc["manual"].results,
                             cyc["manual"].old, Len(cyc["manual"].targets))]_vars

\* a request arrives at the proxy and is validated
RequestStep == proxy.pc = "idle" /\ proxy'.pc # "idle"

\* the body of the request names an address
AddrGiven(body) ==
    /\ body.kind = "dict"
    /\ "astra_addr" \in DOMAIN body.fields
    /\ body.fields.astra_addr.type = "str"
    /\ body.fields.astra_addr.v # <<>>

\* host:port: one colon, and after it a port number between 1 and 65535 (the
\* host part is not looked at)
WellFormed(chars) ==
    \E k \in 1..Len(chars) :
        /\ chars[k] = ":"
        /\ \A j \in 1..Len(chars) : chars[j] = ":" => j = k
        /\ LET port == ParseInt(SubSeq(chars, k + 1, Len(chars)))
           IN  port.ok /\ port.val \in 1..65535

\* the store has a record of the address with status Online
StoreOnline(chars) ==
    \E i \in 1..Len(instances) :
        /\ instances[i].status = "Online"
        /\ AddrText(instances[i].addr) = chars

\* C28: the proxy sends a request upstream only if the address it names has a
\* record with status Online in the store when the request is validated; a
\* missing or ill-formed address is answered 400 and an unknown or Offline
\* one 404, both without a call upstream; the payload sent upstream is the
\* body of the request without the address field
C28_ForwardOnlyOnline ==
    [][RequestStep =>
        LET body == proxy'.body
            given == AddrGiven(body)
            formed == given /\ WellFormed(body.fields.astra_addr.v)
            online == formed /\ StoreOnline(body.fields.astra_addr.v)
        IN  /\ proxy'.post.made <=> online
            /\ proxy'.pc = "upstream" <=> online
            /\ ~formed => proxy'.reply.status = 400
            /\ formed /\ ~online => proxy'.reply.status = 404
            /\ online =>
                 /\ proxy'.post.addr = body.fields.astra_addr.v
                 /\ DOMAIN proxy'.post.payload = DOMAIN body.fields \ {"astra_addr"}
                 /\ \A k \in DOMAIN proxy'.post.payload :
                        proxy'.post.payload[k] = body.fields[k]]_vars

\* a request with another field is upstream, to an instance that has gone
\* Offline in the store since the request was validated
C28_Witness ==
    /\ proxy.pc = "upstream"
    /\ proxy.post.made
    /\ DOMAIN proxy.post.payload = {"cmd"}
    /\ \E i \in 1..Len(instances) :
          /\ AddrText(instances[i].addr) = proxy.post.addr
          /\ instances[i].status = "Offline"

\* the POST to the instance ends and the proxy answers its client
UpstreamStep == proxy.pc = "upstream" /\ proxy'.pc = "done"

\* C29: a connection failure upstream is answered 503, a timeout 504, an
\* upstream reply with a status outside 2xx 502; a 2xx reply is relayed with
\* its status and its JSON body; every outcome is answered with a status
C29_StatusMapping ==
    [][UpstreamStep =>
        LET outcome == proxy'.upstream
            reply == proxy'.reply
        IN  /\ reply.status \in 100..599
            /\ "exc" \in DOMAIN outcome =>
                 /\ outcome.exc = "ConnectError" => reply.status = 503
                 /\ outcome.exc = "TimeoutException" => reply.status = 504
            /\ "status_code" \in DOMAIN outcome =>
                 /\ outcome.status_code \notin 200..299 => reply.status = 502
                 /\ outcome.status_code \in 200..299 /\ outcome.json =>
                      reply = [status |-> outcome.status_code, data |-> "json"]]_vars

(* --------------------------- disk write errors --------------------------- *)
\* the debounced task t leaves save_config on a file system that refuses the write
DebouncedFailStep(t) ==
    /\ tasks[t].state = "writing"
    /\ ~tasks[t].cancel
    /\ io # "ok"
    /\ tasks'[t].state # "writing"

\* the forced save of the shutdown leaves save_config
ForcedSaveStep == shut.pc = "write" /\ shut'.pc # "write"

\* C31: an error of the disk write is raised to the caller of the forced save
\* of the shutdown, and swallowed in the debounced save: the failing task is
\* finished, the scan loop and the shutdown are not touched by it, the loop is
\* never stopped by it, and a later change schedules a new save
C31_WriteErrors ==
    [][/\ ForcedSaveStep =>
            IF io = "ok" THEN shut'.pc = "closed" ELSE shut'.pc = "raised"
       /\ \A t \in TaskIds : DebouncedFailStep(t) =>
            /\ tasks'[t].state \in {"done", "free"}
            /\ cyc' = cyc /\ shut' = shut /\ subs' = subs
            /\ save_task' = save_task /\ instances' = instances
       /\ shut'.pc = "run" => cyc'["loop"].pc # "stopped"
       /\ fired' => /\ save_task' # 0
                    /\ tasks'[save_task'].state = "sleeping"
                    /\ ~tasks'[save_task'].cancel]_vars

\* the save task of the handle has finished without being cancelled and
\* without a write since the last change, on a file system that refuses the
\* write, and the loop is in its next cycle
C31_Witness ==
    /\ save_task # 0
    /\ tasks[save_task].state = "done"
    /\ ~tasks[save_task].cancel
    /\ burst.writes = 0
    /\ io # "ok"
    /\ cyc["loop"].pc = "probing"

(* ------------------------- shape of the store --------------------------- *)
\* a perform_update execution has replaced the store
StoreReplaced == last_results # <<>> \/ \E c \in Cycles : cyc[c].pc = "cancelwait"

\* C32: once a cycle has replaced the State Store, no two of its records
\* share an address and every record is Online or Offline, also with a server
\* list that names one address twice and after a restored snapshot that had
\* neither property
C32_StoreShape ==
    StoreReplaced =>
        /\ \A i, j \in 1..Len(instances) :
               instances[i].addr = instances[j].addr => i = j
        /\ \A i \in 1..Len(instances) : instances[i].status \in {"Online", "Offline"}

\* the address listed twice was restored twice with a status of its own, and
\* both probes of the cycle failed: one Offline record with the version of the
\* record restored last
C32_Witness ==
    /\ config.servers = <<Server(1), Server(1)>>
    /\ last_results = <<"None", "None">>
    /\ instances = <<Inst(AddrOf(instance_host, 1), "2.1", "Offline")>>

\* a subscriber leaves its wait as woken in this step
WokenStep(s) == subs[s].pc # "woken" /\ subs'[s].pc = "woken"

\* C34: the Notifier flag is clear at every point where a coroutine can run:
\* it is clear before and after every step (the set and the clear of a fire
\* are one step, and the subscribers' clear finds it clear), and a subscriber
\* is woken only out of a wait that was already pending, in a step that fires
C34_EdgeTrigger ==
    [][/\ ~update_event
       /\ ~update_event'
       /\ \A s \in Subs : WokenStep(s) => subs[s].pc = "wait" /\ fired']_vars

\* a subscriber that had sent a snapshot and waited again was woken by a fire
C34_Witness ==
    /\ fired
    /\ ~update_event
    /\ \E s \in Subs : subs[s].pc = "woken" /\ subs[s].last_sent.some

\* the subscriber generators that have started and not ended
Running == {s \in Subs : subs[s].pc # "off"}

C33_SoleWriter ==
    [][phase = "running" /\ instances' # instances =>
           \E c \in Cycles : FinishStep(c)]_vars

\* a cycle has replaced the restored store; a subscriber holds a copy of the
\* new store while a proxy request is upstream and a debounced save is pending
C33_Witness ==
    /\ phase = "running"
    /\ instances # SnapshotOnline
    /\ subs[1].pc = "push"
    /\ subs[1].data = instances
    /\ proxy.pc = "upstream"
    /\ save_task # 0

\* the execution c fires the Notifier in this step
FireStep(c) == InFlight(c) /\ fired' /\ ~InFlight(c)'

\* the woken subscriber s reads the store in this step
WokenRead(s) == subs[s].pc = "woken" /\ subs'[s].pc # "woken"

\* C35: when an execution fires the Notifier the store already holds its
\* change (it differs from the execution's pre-change state and equals the
\* snapshot the execution recorded), and what a woken subscriber reads is the
\* store of the moment of the read: it pushes that store, or it pushes
\* nothing because that store is what it sent last
C35_CurrentAfterWake ==
    [][/\ \A c \in Cycles : FireStep(c) =>
              /\ HasChanged(cyc[c].old, instances')
              /\ instances' = config'.cached_instances
       /\ \A s \in Subs : WokenRead(s) =>
              \/ subs'[s].pc = "push" /\ subs'[s].data = instances
              \/ /\ subs'[s].pc = "wait"
                 /\ subs[s].last_sent = [some |-> TRUE, val |-> instances]]_vars

\* a subscriber woken by a fire pushes the changed store, which differs from
\* what it had sent before and is not yet in the file
C35_Witness ==
    \E s \in Subs :
        /\ subs[s].pc = "push"
        /\ subs[s].last_sent.some
        /\ subs[s].data = instances
        /\ subs[s].data # subs[s].last_sent.val
        /\ file # instances
        /\ \E r \in Subs : subs[r].pc = "woken"

\* the writes of the configuration file that are in progress: save tasks
\* inside save_config, and the forced write of the shutdown
Writers ==
    Cardinality({t \in TaskIds : tasks[t].state = "writing"})
        + (IF shut.pc = "write" THEN 1 ELSE 0)

\* C36: at no time are two writes of the configuration file in progress
C36_OneWriter == Writers <= 1

\* C37: each replace is the reconciliation of the execution's probe results
\* against the State Store as it is immediately before that replace, also
\* when another execution has replaced the store since this one took its
\* snapshot
C37_ReconcileAgainstStore ==
    [][\A c \in Cycles : FinishStep(c) =>
           instances' = Reconcile(cyc[c].targets, cyc[c].results,
                                  DictOf(instances), Len(cyc[c].targets))]_vars

\* C38: every replace that leaves the store with contents different from
\* those immediately before it is followed in the same execution by the
\* update of the config snapshot, the scheduling of a save (at once, or after
\* the wait for the cancelled predecessor) and the fire, also when another
\* execution has replaced the store since this one took its snapshot
C38_ChangeIsPublished ==
    [][\A c \in Cycles :
           FinishStep(c) /\ HasChanged(DictOf(instances), instances') =>
               /\ config'.cached_instances = instances'
               /\ config'.cache_age = 0
               /\ \/ fired' /\ save_task' # 0 /\ tasks'[save_task'].state = "sleeping"
                  \/ cyc'[c].pc = "cancelwait"]_vars
====
